---- MODULE Spec2Model ----
(***************************************************************************)
(* Model of the virtualized grid of src/components/grid/GridCanvas.tsx     *)
(* (VirtualizedPixiGrid): the sparse tile store, the viewport controller   *)
(* with its animation loop, viewport culling and the LOD renderer, grid    *)
(* expansion, and the sprite pool / texture cache together with the sprite *)
(* rendering effect documented in src/GRID_OPTIMIZATION_GUIDE.md.           *)
(*                                                                         *)
(* Numbers.  The component computes with JavaScript numbers.  The model    *)
(* keeps them on two fixed-point grids: offsets are counted in 1/PX of a   *)
(* pixel and scales in 1/SC of the unit scale, so that the snap thresholds *)
(* of the animation loop (0.1 pixel, 0.001 scale) are 10 grid steps each.  *)
(* A product or quotient that leaves the grid is rounded to the nearest    *)
(* grid point, as a floating-point operation rounds to the nearest         *)
(* representable number.  Window sizes and pointer positions are whole     *)
(* pixels.                                                                 *)
(***************************************************************************)
EXTENDS Integers, Sequences, FiniteSets, TLC

VARIABLES
    rows,            \* useState(INITIAL_ROWS)
    cols,            \* useState(INITIAL_COLS)
    tileData,        \* useState<Map<string, TileData>>: key <<row, col>> -> record
    viewport,        \* useState: width, height (pixels), xOffset, yOffset, scale (actual camera)
    targetViewport,  \* useRef: xOffset, yOffset, scale (target camera)
    isPanning,       \* useRef(false)
    lastPointerPos,  \* useRef({x: 0, y: 0})
    hasMoved,        \* useRef(false)
    pointerDownPos,  \* useRef({x: 0, y: 0}): container-local position in 1/PX pixel
    clicked,         \* the tile <<row, col>> alerted by the last pointer-up, or NoClick
    pointerAt,       \* history: canvas pixel at which a handler last saw the pointer, or NoPos
    downAt,          \* history: canvas pixel of the pointer-down of the gesture, or NoPos
    strayed,         \* history: the pointer was seen more than 5 pixels from downAt
    textureCache,    \* module-level Map<string, Texture>: the set of cached image urls
    sprites,         \* every Sprite allocated so far: sprite id -> [texture, visible]
    spritePool,      \* useRef<Sprite[]>: sequence of sprite ids
    activeSpriteMap, \* useRef<Map<string, Sprite>>: insertion-ordered <<key, sprite id>> entries
    loads,           \* history: image url -> number of Texture.from calls that returned a texture
    peakActive,      \* history: the largest size activeSpriteMap has had
    now,             \* Date.now(), in time units of TIME_UNIT_MINUTES
    reservations,    \* mock API, Map<string, Reservation>: reservation id -> record (ids are 1, 2, ...)
    userReservations,\* mock API, Map<string, string>: userId -> reservation id
    lastResponse,    \* the ApiResponse the mock API returned last
    selectedTiles,   \* store: Set<string> of selected tile ids
    activeReservation,     \* store: the Reservation object (its id in reservations), or NoReservation
    reservationTimeLeft,   \* store: <<time left>>, or NoTime for null
    isReservationExpiring, \* store: boolean
    reservationTimer,      \* store closure: the interval handle, or NoTimer for null
    intervals,       \* the handles of the intervals set and not cleared
    pending,         \* the store's API calls whose delay has not elapsed, in the order they will fire
    frames,          \* the grid states (rows, cols, tileData) React committed and rendered in the last re-render
    events           \* number of input events handled so far (bounds the exploration)

vars == <<rows, cols, tileData, viewport, targetViewport, isPanning, lastPointerPos,
          hasMoved, pointerDownPos, clicked, pointerAt, downAt, strayed,
          textureCache, sprites, spritePool, activeSpriteMap, loads, peakActive, frames, events,
          now, reservations, userReservations, lastResponse, selectedTiles, activeReservation,
          reservationTimeLeft, isReservationExpiring, reservationTimer, intervals, pending>>

camVars == <<viewport, targetViewport>>
ptrVars == <<isPanning, lastPointerPos, hasMoved>>
clickVars == <<pointerDownPos, clicked, pointerAt, downAt, strayed>>
gridVars == <<rows, cols, tileData>>
spriteVars == <<textureCache, sprites, spritePool, activeSpriteMap, loads, peakActive>>
apiVars == <<reservations, userReservations, lastResponse>>
storeVars == <<selectedTiles, activeReservation, reservationTimeLeft, isReservationExpiring,
               reservationTimer, intervals, pending>>
resVars == <<now, apiVars, storeVars>>
canvasVars == <<gridVars, camVars, ptrVars, clickVars, spriteVars, frames, events>>

-----------------------------------------------------------------------------
(* Program constants *)

TILE_SIZE == 50
INITIAL_ROWS == 10
INITIAL_COLS == 10
MIN_VISIBLE_TILES == 10
MAX_VISIBLE_TILES == 100
ZOOM_SPEED_DEN == 1000      \* ZOOM_SPEED = 0.001 = 1 / ZOOM_SPEED_DEN
LERP_NUM == 15              \* LERP_FACTOR = 0.15 = LERP_NUM / LERP_DEN
LERP_DEN == 100
CHUNK_SIZE == 10

(* Times are counted in units of TIME_UNIT_MINUTES minutes *)
TIME_UNIT_MINUTES == 5
RESERVATION_TIME == 36      \* 3 * 60 * 60 * 1000 ms
WARNING_TIME == 3           \* 15 * 60 * 1000 ms
EXTEND_MINUTES == 30        \* extendReservation(30) of the "+30 min" button

(* Fixed-point grids *)
PX == 100                   \* offset steps per pixel
SC == 10000                 \* scale steps per unit scale
SCPX == SC \div PX

LOD_MINIMAL_SCALE == 1000   \* 0.1 in scale steps
LOD_LOW_SCALE == 5000       \* 0.5 in scale steps
SNAP_OFFSET == 10           \* 0.1 pixel in offset steps
SNAP_SCALE == 10            \* 0.001 in scale steps

-----------------------------------------------------------------------------
(* Bounds of the exploration *)

MaxEvents == 1              \* camera input events (pan move, wheel, resize) per run
MaxExpands == 1             \* clicks on "Expand Grid 2x" per run
MaxTime == 44               \* the clock stops here; no reservation is made to expire later
MaxReservations == 3        \* reservations created per run
MaxPending == 2             \* API calls of the store in flight at once

-----------------------------------------------------------------------------
(* Arithmetic helpers *)

Max(a, b) == IF a >= b THEN a ELSE b
Min(a, b) == IF a <= b THEN a ELSE b
Abs(a) == IF a >= 0 THEN a ELSE -a

\* Math.floor(a / b) and Math.ceil(a / b) for b > 0
FloorDiv(a, b) == a \div b
CeilDiv(a, b) == -((-a) \div b)

\* a / b rounded to the nearest grid point (b > 0)
RoundDiv(a, b) == (a + (b \div 2)) \div b

-----------------------------------------------------------------------------
(* Input alphabets *)

\* window.innerWidth x window.innerHeight, whole pixels
WindowSizes == {<<490, 500>>, <<800, 510>>}

\* e.clientX, e.clientY of mouse events
PointerPositions == {<<0, 0>>, <<12, 4>>}

\* e.deltaY of wheel events
WheelDeltas == {-100, 500}

\* image urls; loading a url may succeed or throw
ImageUrls == {"a", "b"}
NoImage == "none"           \* TileData.imageUrl absent
EMPTY == "EMPTY"            \* Texture.EMPTY

\* a small window, in which the zoom bounds reach below LOD_MINIMAL_SCALE
SmallWindowSizes == {<<30, 40>>}
ClickWindowSizes == {<<490, 500>>}

\* coordinates on which the Math.random() < 0.1 draws of the initial fill and of
\* expandGrid may come out true (any subset of them)
InitialDraws == {<<3, 3>>}
ExpandDraws(newRows, newCols) == {<<0, 0>>, <<newRows - 1, newCols - 1>>}

\* canvas pixels of the pointer events the Pixi graphics receives
ClickPositions == {<<0, 0>>, <<4, 3>>, <<125, 125>>}
NoPos == <<-1, -1>>
NoClick == <<-1, -1>>

\* coordinates passed to setTileImage
UploadCoords == {<<0, 0>>, <<2, 2>>}

\* coordinates outside every grid the model reaches
OutsideCoords == {<<-1, 0>>, <<0, 1000>>}

-----------------------------------------------------------------------------
(* Sparse tile store *)

SoldTile == [sold |-> TRUE, imageUrl |-> NoImage]
DefaultTile == [sold |-> FALSE, imageUrl |-> NoImage]

\* tileData.get(key) with the optional chaining of the readers (tile?.sold, tile?.imageUrl)
getTile(td, key) == IF key \in DOMAIN td THEN td[key] ELSE DefaultTile

\* new Map().set(key, value): the previous records are not copied
MapSet_withoutCopy(td, key, value) == [k \in {key} |-> value]

\* new Map(prev).set(key, value)
MapSet(td, key, value) == [k \in DOMAIN td \cup {key} |-> IF k = key THEN value ELSE td[k]]

\* the useState initializer of tileData: a { sold: true } record on every drawn coordinate
initialTileData(drawn) == [k \in drawn |-> SoldTile]

-----------------------------------------------------------------------------
(* Viewport controller *)

\* getZoomConstraints without the performance limit on zooming out
getZoomConstraints_gridOnly(h, rs) ==
    [minScale |-> RoundDiv(h * SC, rs * TILE_SIZE),
     maxScale |-> RoundDiv(h * SC, MIN_VISIBLE_TILES * TILE_SIZE)]

\* getZoomConstraints, for viewport height h (pixels) and rs rows
getZoomConstraints(h, rs) ==
    LET maxScale == RoundDiv(h * SC, MIN_VISIBLE_TILES * TILE_SIZE)
        performanceMinScale == RoundDiv(h * SC, MAX_VISIBLE_TILES * TILE_SIZE)
        gridHeight == rs * TILE_SIZE
        gridMinScale == RoundDiv(h * SC, gridHeight)
        minScale == Max(performanceMinScale, gridMinScale)
    IN  [minScale |-> minScale, maxScale |-> maxScale]

\* cols * scaledTileSize in offset steps, scaledTileSize = TILE_SIZE * scale
gridExtent(n, scale) == RoundDiv(n * TILE_SIZE * scale, SCPX)

\* constrainViewport clamping only the upper ends of the offsets
constrainViewport_upperOnly(xOffset, yOffset, scale, w, h, rs, cs) ==
    LET zc == getZoomConstraints(h, rs)
        constrainedScale == Max(zc.minScale, Min(zc.maxScale, scale))
        maxXOffset == Max(0, RoundDiv(cs * TILE_SIZE * constrainedScale, SCPX) - w * PX)
        maxYOffset == Max(0, RoundDiv(rs * TILE_SIZE * constrainedScale, SCPX) - h * PX)
    IN  [xOffset |-> Min(maxXOffset, xOffset),
         yOffset |-> Min(maxYOffset, yOffset),
         scale |-> constrainedScale]

\* constrainViewport measuring the grid at the requested scale instead of the constrained one
constrainViewport_requestedScale(xOffset, yOffset, scale, w, h, rs, cs) ==
    LET zc == getZoomConstraints(h, rs)
        constrainedScale == Max(zc.minScale, Min(zc.maxScale, scale))
        maxXOffset == Max(0, gridExtent(cs, scale) - w * PX)
        maxYOffset == Max(0, gridExtent(rs, scale) - h * PX)
    IN  [xOffset |-> Max(0, Min(maxXOffset, xOffset)),
         yOffset |-> Max(0, Min(maxYOffset, yOffset)),
         scale |-> constrainedScale]

\* constrainViewport(xOffset, yOffset, scale) under viewport size w x h and grid rs x cs
constrainViewport(xOffset, yOffset, scale, w, h, rs, cs) ==
    LET zc == getZoomConstraints(h, rs)
        constrainedScale == Max(zc.minScale, Min(zc.maxScale, scale))
        gridWidth == gridExtent(cs, constrainedScale)
        gridHeight == gridExtent(rs, constrainedScale)
        maxXOffset == Max(0, gridWidth - w * PX)
        maxYOffset == Max(0, gridHeight - h * PX)
    IN  [xOffset |-> Max(0, Min(maxXOffset, xOffset)),
         yOffset |-> Max(0, Min(maxYOffset, yOffset)),
         scale |-> constrainedScale]

\* d * 1.15
lerpStep_factorAboveOne(d) == RoundDiv(d * (LERP_DEN + LERP_NUM), LERP_DEN)

\* d * LERP_FACTOR
lerpStep(d) == RoundDiv(d * LERP_NUM, LERP_DEN)

\* animate without the snap to the target
animate_noSnap(current, target) ==
    [current EXCEPT !.xOffset = current.xOffset + lerpStep(target.xOffset - current.xOffset),
                    !.yOffset = current.yOffset + lerpStep(target.yOffset - current.yOffset),
                    !.scale = current.scale + lerpStep(target.scale - current.scale)]

\* the updater passed to setViewport by animate
animate(current, target) ==
    LET dx == target.xOffset - current.xOffset
        dy == target.yOffset - current.yOffset
        ds == target.scale - current.scale
    IN  IF Abs(dx) < SNAP_OFFSET /\ Abs(dy) < SNAP_OFFSET /\ Abs(ds) < SNAP_SCALE
        THEN [current EXCEPT !.xOffset = target.xOffset,
                             !.yOffset = target.yOffset,
                             !.scale = target.scale]
        ELSE [current EXCEPT !.xOffset = current.xOffset + lerpStep(dx),
                             !.yOffset = current.yOffset + lerpStep(dy),
                             !.scale = current.scale + lerpStep(ds)]

\* handleWheel: the camera requested for wheel delta deltaY at pivot (mouseX, mouseY)
wheelRequest(target, deltaY, mouseX, mouseY) ==
    LET newScale == RoundDiv(target.scale * (ZOOM_SPEED_DEN - deltaY), ZOOM_SPEED_DEN)
        \* worldX * newScale - mouseX with worldX = (mouseX + xOffset) / scale
        newXOffset == RoundDiv((mouseX * PX + target.xOffset) * newScale, target.scale) - mouseX * PX
        newYOffset == RoundDiv((mouseY * PX + target.yOffset) * newScale, target.scale) - mouseY * PX
    IN  [xOffset |-> newXOffset, yOffset |-> newYOffset, scale |-> newScale]

-----------------------------------------------------------------------------
(* Viewport culling and LOD selection of drawGrid *)

\* cullBounds with the end indices rounded down instead of up
cullBounds_floorEnd(vp, rs, cs) ==
    LET scaledTileSize == TILE_SIZE * vp.scale
    IN  [startCol |-> FloorDiv(vp.xOffset * SCPX, scaledTileSize),
         endCol |-> Min(cs, FloorDiv((vp.xOffset + vp.width * PX) * SCPX, scaledTileSize)),
         startRow |-> FloorDiv(vp.yOffset * SCPX, scaledTileSize),
         endRow |-> Min(rs, FloorDiv((vp.yOffset + vp.height * PX) * SCPX, scaledTileSize))]

\* [startRow, endRow) x [startCol, endCol) for camera vp over a grid rs x cs
cullBounds(vp, rs, cs) ==
    LET scaledTileSize == TILE_SIZE * vp.scale   \* in 1/SC pixel
    IN  [startCol |-> FloorDiv(vp.xOffset * SCPX, scaledTileSize),
         endCol |-> Min(cs, CeilDiv((vp.xOffset + vp.width * PX) * SCPX, scaledTileSize)),
         startRow |-> FloorDiv(vp.yOffset * SCPX, scaledTileSize),
         endRow |-> Min(rs, CeilDiv((vp.yOffset + vp.height * PX) * SCPX, scaledTileSize))]

isMinimalLOD(scale) == scale < LOD_MINIMAL_SCALE
isLowLOD(scale) == scale < LOD_LOW_SCALE

\* the chunk coordinates [chunkStartRow, chunkEndRow) x [chunkStartCol, chunkEndCol)
\* iterated by the minimal-LOD branch of drawGrid
chunkBounds(b) ==
    [chunkStartCol |-> FloorDiv(b.startCol, CHUNK_SIZE),
     chunkEndCol |-> CeilDiv(b.endCol, CHUNK_SIZE),
     chunkStartRow |-> FloorDiv(b.startRow, CHUNK_SIZE),
     chunkEndRow |-> CeilDiv(b.endRow, CHUNK_SIZE)]

\* the tiles of chunk (chunkRow, chunkCol) scanned by the sold-count loops
chunkTiles(chunkRow, chunkCol, rs, cs) ==
    {<<r, c>> : r \in (chunkRow * CHUNK_SIZE)..(Min((chunkRow + 1) * CHUNK_SIZE, rs) - 1),
                c \in (chunkCol * CHUNK_SIZE)..(Min((chunkCol + 1) * CHUNK_SIZE, cs) - 1)}

\* drawGrid scanning every chunk of the grid at minimal LOD
visitedTiles_allChunks(vp, rs, cs) ==
    LET b == cullBounds(vp, rs, cs)
    IN  IF isMinimalLOD(vp.scale)
        THEN {<<r, c>> : r \in 0..(rs - 1), c \in 0..(cs - 1)}
        ELSE {<<row, col>> : row \in b.startRow..(b.endRow - 1),
                             col \in b.startCol..(b.endCol - 1)}

\* the keys drawGrid looks up in tileData in one frame
visitedTiles(vp, rs, cs) ==
    LET b == cullBounds(vp, rs, cs)
        cb == chunkBounds(b)
    IN  IF isMinimalLOD(vp.scale)
        THEN UNION {chunkTiles(chunkRow, chunkCol, rs, cs) :
                       chunkRow \in cb.chunkStartRow..(cb.chunkEndRow - 1),
                       chunkCol \in cb.chunkStartCol..(cb.chunkEndCol - 1)}
        ELSE {<<row, col>> : row \in b.startRow..(b.endRow - 1),
                             col \in b.startCol..(b.endCol - 1)}

\* the elements of an array
SeqRange(q) == {q[i] : i \in 1..Len(q)}

\* the tiles of the culling rectangle in the order of the row / col loops
rectTiles(b) ==
    LET w == b.endCol - b.startCol
        h == b.endRow - b.startRow
        n == IF w > 0 /\ h > 0 THEN w * h ELSE 0
    IN  [i \in 1..n |-> <<b.startRow + ((i - 1) \div w), b.startCol + ((i - 1) % w)>>]

BucketNames == <<"availableTiles", "soldTiles", "imageTiles">>

\* the classification with three independent ifs instead of the if / else-if chain
bucketsOf_independentIfs(tile) ==
    (IF tile.imageUrl # NoImage THEN {"imageTiles"} ELSE {})
    \cup (IF tile.sold THEN {"soldTiles"} ELSE {})
    \cup (IF tile.imageUrl = NoImage /\ ~tile.sold THEN {"availableTiles"} ELSE {})

\* the lists the per-tile pass of drawGrid pushes a tile to
bucketsOf(tile) ==
    IF tile.imageUrl # NoImage THEN {"imageTiles"}
    ELSE IF tile.sold THEN {"soldTiles"}
    ELSE {"availableTiles"}

\* availableTiles, soldTiles and imageTiles after the per-tile pass over rectangle b
bucketsIn(b, td) ==
    LET tiles == rectTiles(b)
    IN  [name \in {BucketNames[i] : i \in 1..3} |->
            LET Pushed(key) == name \in bucketsOf(getTile(td, key))
            IN  SelectSeq(tiles, Pushed)]

\* availableTiles, soldTiles and imageTiles after the per-tile pass of drawGrid
tileBuckets(vp, td, rs, cs) == bucketsIn(cullBounds(vp, rs, cs), td)

\* the beginFill calls of the batched pass, in call order: one per non-empty list
batchedFills(vp, td, rs, cs) ==
    LET filled(name) == Len(tileBuckets(vp, td, rs, cs)[name]) > 0
    IN  SelectSeq(BucketNames, filled)

\* the tiles for which drawGrid draws the blue placeholder rectangle
placeholderTiles(vp, td, rs, cs) ==
    IF isMinimalLOD(vp.scale) THEN {}
    ELSE SeqRange(tileBuckets(vp, td, rs, cs)["imageTiles"])

\* the line style set on a batch whenever the scale is above the minimal threshold
batchStroked_aboveMinimal(scale) == ~isMinimalLOD(scale)

\* if (!isLowLOD) g.lineStyle(...): the rectangles of a batch get a border stroke
batchStroked(scale) == ~isLowLOD(scale)

\* the batches drawGrid draws for rectangle b at the given scale, in drawing order:
\* none in the chunk branch, else one per non-empty list
drawBatchesIn(b, scale, td) ==
    LET buckets == bucketsIn(b, td)
        filled(name) == Len(buckets[name]) > 0
        fills == SelectSeq(BucketNames, filled)
    IN  IF isMinimalLOD(scale) THEN <<>>
        ELSE [i \in 1..Len(fills) |->
                 [fill |-> fills[i], stroked |-> batchStroked(scale), tiles |-> buckets[fills[i]]]]

\* the fill of a chunk rectangle with a constant alpha
chunkFill_flatAlpha(soldCount, totalCount) ==
    [color |-> IF totalCount > 0 /\ 2 * soldCount > totalCount THEN "0xff6347" ELSE "0x4caf50",
     alpha |-> [num |-> 7, den |-> 10]]

\* beginFill(color, 0.7 + soldRatio * 0.3) with soldRatio = soldCount / totalCount;
\* alpha is the fraction num / den, and 0 / 0 when soldRatio is NaN
chunkFill(soldCount, totalCount) ==
    [color |-> IF totalCount > 0 /\ 2 * soldCount > totalCount THEN "0xff6347" ELSE "0x4caf50",
     alpha |-> IF totalCount > 0
               THEN [num |-> 7 * totalCount + 3 * soldCount, den |-> 10 * totalCount]
               ELSE [num |-> 0, den |-> 0]]

\* the rectangle drawn for chunk (chunkRow, chunkCol): the sold-count loops, the
\* fill and drawRect (x, y, width, height in world pixels)
chunkRect(chunkRow, chunkCol, td, rs, cs) ==
    LET scanned == chunkTiles(chunkRow, chunkCol, rs, cs)
        soldCount == Cardinality({key \in scanned : getTile(td, key).sold})
        totalCount == Cardinality(scanned)
    IN  [chunkRow |-> chunkRow, chunkCol |-> chunkCol,
         soldCount |-> soldCount, totalCount |-> totalCount,
         fill |-> chunkFill(soldCount, totalCount),
         x |-> chunkCol * CHUNK_SIZE * TILE_SIZE,
         y |-> chunkRow * CHUNK_SIZE * TILE_SIZE,
         width |-> CHUNK_SIZE * TILE_SIZE,
         height |-> CHUNK_SIZE * TILE_SIZE]

\* the rectangles the chunk branch of drawGrid draws for rectangle b, in drawing
\* order; none outside Minimal LOD
drawChunksIn(b, scale, td, rs, cs) ==
    LET cb == chunkBounds(b)
        chunks == rectTiles([startRow |-> cb.chunkStartRow, endRow |-> cb.chunkEndRow,
                             startCol |-> cb.chunkStartCol, endCol |-> cb.chunkEndCol])
    IN  IF isMinimalLOD(scale)
        THEN [i \in 1..Len(chunks) |-> chunkRect(chunks[i][1], chunks[i][2], td, rs, cs)]
        ELSE <<>>

\* the chunk rectangles of one frame
drawChunks(vp, td, rs, cs) == drawChunksIn(cullBounds(vp, rs, cs), vp.scale, td, rs, cs)

\* the batches of one frame
drawBatches(vp, td, rs, cs) == drawBatchesIn(cullBounds(vp, rs, cs), vp.scale, td)

\* the LOD bucket drawGrid renders: the chunk branch, or the per-tile pass without
\* (Low) or with (Full) the border line style
rendererLOD(scale) ==
    IF isMinimalLOD(scale) THEN "Minimal" ELSE IF isLowLOD(scale) THEN "Low" ELSE "Full"

\* the LOD label of the stats panel; its test of the low threshold comes first
statsLOD_lowFirst(scale) ==
    IF scale < LOD_LOW_SCALE THEN "Low" ELSE IF scale < LOD_MINIMAL_SCALE THEN "Minimal" ELSE "Full"

\* the LOD label of the stats panel
statsLOD(scale) ==
    IF scale < LOD_MINIMAL_SCALE THEN "Minimal" ELSE IF scale < LOD_LOW_SCALE THEN "Low" ELSE "Full"

-----------------------------------------------------------------------------
(* Sprite pool and texture cache.  The sprite variables travel together as a  *)
(* record ss = [textureCache, sprites, spritePool, activeSpriteMap, loads].  *)

NoSprite == 0               \* getOrCreateSprite returning null

Last(q) == q[Len(q)]
Front(q) == SubSeq(q, 1, Len(q) - 1)

\* the load count after a call on imageUrl: Texture.from runs on a cache miss only
loaded(ss, imageUrl) ==
    IF imageUrl \in ss.textureCache THEN ss.loads
    ELSE [ss.loads EXCEPT ![imageUrl] = @ + 1]

\* getOrCreateSprite calling Texture.from without looking into the cache
getOrCreateSprite_noCacheLookup(ss, imageUrl, loadable) ==
    IF imageUrl \notin ss.textureCache /\ imageUrl \notin loadable
    THEN [ss |-> ss, sprite |-> NoSprite]
    ELSE LET pooled == Len(ss.spritePool) > 0
             sprite == IF pooled THEN Last(ss.spritePool) ELSE Len(ss.sprites) + 1
             pool == IF pooled THEN Front(ss.spritePool) ELSE ss.spritePool
             all == IF pooled THEN ss.sprites
                    ELSE Append(ss.sprites, [texture |-> EMPTY, visible |-> TRUE])
         IN  [ss |-> [ss EXCEPT !.textureCache = ss.textureCache \cup {imageUrl},
                                !.loads = [@ EXCEPT ![imageUrl] = @ + 1],
                                !.spritePool = pool,
                                !.sprites = [all EXCEPT ![sprite].texture = imageUrl]],
              sprite |-> sprite]

\* getOrCreateSprite popping the pool before it loads the texture
getOrCreateSprite_popFirst(ss, imageUrl, loadable) ==
    LET pooled == Len(ss.spritePool) > 0
        sprite == IF pooled THEN Last(ss.spritePool) ELSE Len(ss.sprites) + 1
        pool == IF pooled THEN Front(ss.spritePool) ELSE ss.spritePool
        all == IF pooled THEN ss.sprites
               ELSE Append(ss.sprites, [texture |-> EMPTY, visible |-> TRUE])
    IN  IF imageUrl \notin ss.textureCache /\ imageUrl \notin loadable
        THEN [ss |-> [ss EXCEPT !.spritePool = pool, !.sprites = all], sprite |-> NoSprite]
        ELSE [ss |-> [ss EXCEPT !.textureCache = ss.textureCache \cup {imageUrl},
                                !.loads = loaded(ss, imageUrl),
                                !.spritePool = pool,
                                !.sprites = [all EXCEPT ![sprite].texture = imageUrl]],
              sprite |-> sprite]

\* getOrCreateSprite allocating a sprite on every call
getOrCreateSprite_alwaysNew(ss, imageUrl, loadable) ==
    IF imageUrl \notin ss.textureCache /\ imageUrl \notin loadable
    THEN [ss |-> ss, sprite |-> NoSprite]
    ELSE [ss |-> [ss EXCEPT !.textureCache = ss.textureCache \cup {imageUrl},
                            !.loads = loaded(ss, imageUrl),
                            !.sprites = Append(ss.sprites, [texture |-> imageUrl, visible |-> TRUE])],
          sprite |-> Len(ss.sprites) + 1]

\* getOrCreateSprite(imageUrl); Texture.from succeeds exactly on the urls in loadable
getOrCreateSprite(ss, imageUrl, loadable) ==
    IF imageUrl \notin ss.textureCache /\ imageUrl \notin loadable
    THEN [ss |-> ss, sprite |-> NoSprite]
    ELSE LET cache == ss.textureCache \cup {imageUrl}
             pooled == Len(ss.spritePool) > 0
             sprite == IF pooled THEN Last(ss.spritePool) ELSE Len(ss.sprites) + 1
             pool == IF pooled THEN Front(ss.spritePool) ELSE ss.spritePool
             all == IF pooled THEN ss.sprites
                    ELSE Append(ss.sprites, [texture |-> EMPTY, visible |-> TRUE])
         IN  [ss |-> [ss EXCEPT !.textureCache = cache,
                                !.loads = loaded(ss, imageUrl),
                                !.spritePool = pool,
                                !.sprites = [all EXCEPT ![sprite].texture = imageUrl]],
              sprite |-> sprite]

\* returnSpriteToPool pushing the sprite twice
returnSpriteToPool_pushTwice(ss, sprite) ==
    [ss EXCEPT !.sprites = [ss.sprites EXCEPT ![sprite] = [texture |-> EMPTY, visible |-> FALSE]],
               !.spritePool = Append(Append(ss.spritePool, sprite), sprite)]

\* returnSpriteToPool(sprite)
returnSpriteToPool(ss, sprite) ==
    [ss EXCEPT !.sprites = [ss.sprites EXCEPT ![sprite] = [texture |-> EMPTY, visible |-> FALSE]],
               !.spritePool = Append(ss.spritePool, sprite)]

\* (row, col) lies in [startRow, endRow) x [startCol, endCol)
inRect(b, key) ==
    /\ b.startRow <= key[1] /\ key[1] < b.endRow
    /\ b.startCol <= key[2] /\ key[2] < b.endCol

\* the keys of a set in the order the nested row and column loops meet them
RECURSIVE rowMajor(_)
rowMajor(keys) ==
    IF keys = {} THEN <<>>
    ELSE LET first == CHOOSE k \in keys :
                         \A o \in keys : k[1] < o[1] \/ (k[1] = o[1] /\ k[2] <= o[2])
         IN  <<first>> \o rowMajor(keys \ {first})

\* the image-bearing records of the store
imageKeys(td) == {k \in DOMAIN td : td[k].imageUrl # NoImage}

\* visibleImageTiles of the sprite effect, in insertion order: the loops over the
\* culling rectangle keep the keys whose record has an imageUrl
visibleImageTiles(vp, td, rs, cs) ==
    rowMajor({k \in imageKeys(td) : inRect(cullBounds(vp, rs, cs), k)})

activeKeys(entries) == {entries[i][1] : i \in 1..Len(entries)}
activeSprites(entries) == {entries[i][2] : i \in 1..Len(entries)}

\* the removal loop keeping every sprite active
removeLoop_keepAll(ss, entries, visible) == ss

\* activeSpriteMap.forEach: entries whose key is not visible are returned to the pool and deleted
RECURSIVE removeLoop(_, _, _)
removeLoop(ss, entries, visible) ==
    IF entries = <<>> THEN ss
    ELSE LET e == Head(entries)
         IN  IF e[1] \notin visible
             THEN removeLoop([returnSpriteToPool(ss, e[2]) EXCEPT
                                 !.activeSpriteMap = SelectSeq(@, LAMBDA a : a[1] # e[1])],
                             Tail(entries), visible)
             ELSE removeLoop(ss, Tail(entries), visible)

\* visibleImageTiles.forEach: a sprite is created for every visible key without one
RECURSIVE addLoop(_, _, _, _)
addLoop(ss, keys, td, loadable) ==
    IF keys = <<>> THEN ss
    ELSE LET key == Head(keys)
             got == getOrCreateSprite(ss, getTile(td, key).imageUrl, loadable)
         IN  IF key \in activeKeys(ss.activeSpriteMap)
             THEN addLoop(ss, Tail(keys), td, loadable)
             ELSE IF got.sprite = NoSprite
                  THEN addLoop(got.ss, Tail(keys), td, loadable)
                  ELSE addLoop([got.ss EXCEPT !.activeSpriteMap = Append(@, <<key, got.sprite>>)],
                               Tail(keys), td, loadable)

\* the sprite rendering effect, run after a render with camera vp, store td and grid rs x cs
spriteEffect(ss, vp, td, rs, cs, loadable) ==
    LET keys == visibleImageTiles(vp, td, rs, cs)
        removed == removeLoop(ss, ss.activeSpriteMap, SeqRange(keys))
    IN  addLoop(removed, keys, td, loadable)

spriteState == [textureCache |-> textureCache, sprites |-> sprites,
                spritePool |-> spritePool, activeSpriteMap |-> activeSpriteMap,
                loads |-> loads]

\* the urls Texture.from may be called on: those of image tiles that are not cached
uncachedUrls(td) == {td[k].imageUrl : k \in imageKeys(td)} \ textureCache

\* a render commit: the effect runs because viewport, tileData, rows or cols changed;
\* Texture.from succeeds on some of the urls and throws on the others
Render(vp, td, rs, cs) ==
    \E loadable \in SUBSET uncachedUrls(td) :
        LET ss == spriteEffect(spriteState, vp, td, rs, cs, loadable)
        IN  /\ textureCache' = ss.textureCache
            /\ sprites' = ss.sprites
            /\ spritePool' = ss.spritePool
            /\ activeSpriteMap' = ss.activeSpriteMap
            /\ loads' = ss.loads
            /\ peakActive' = Max(peakActive, Len(ss.activeSpriteMap))

-----------------------------------------------------------------------------
(* Mock reservation API (src/lib/api/mock/reservation.mock.ts).  Every method *)
(* awaits a delay and then runs to its return without another await, so its  *)
(* body is one step; api is the record [reservations, userReservations].     *)

\* user ids: the page passes a new one, 'user_' + Date.now(), with every reservation
UserNames == <<"user_1", "user_2", "user_3", "user_4", "user_5">>

\* the user ids other callers pass
Users == {UserNames[1], UserNames[2]}
NoReservation == 0          \* null / undefined where a reservation is expected

\* the selections createReservation is called with
SquareSets == {{<<0, 0>>}, {<<0, 0>>, <<0, 1>>}}

\* the moments (in time units) at which handlers and timers run: shortly after the
\* start, and around the warning and expiry times of a reservation and of its extension
Times == {1, 33, 34, 36, 39, 42, 44}

minutes(n) == n \div TIME_UNIT_MINUTES

\* Array.from(set): the elements of a set in insertion order, here row-major
SeqOfSet(set) == rowMajor(set)

ApiResponse(ok, data, valid) == [success |-> ok, data |-> data, valid |-> valid]

apiState == [reservations |-> reservations, userReservations |-> userReservations]

\* map.set(key, value) and map.delete(key) on the userId -> id index
indexSet(index, userId, id) ==
    [u \in DOMAIN index \cup {userId} |-> IF u = userId THEN id ELSE index[u]]
indexDelete(index, userId) == [u \in DOMAIN index \ {userId} |-> index[u]]

\* reservations.get(reservationId) finds a reservation
known(api, reservationId) == reservationId \in 1..Len(api.reservations)

\* MockReservationAPI.createReservation(squareIds, userId), its body running at time t
apiCreateReservation(api, squareIds, userId, t) ==
    IF userId \in DOMAIN api.userReservations
    THEN [api |-> api, response |-> ApiResponse(FALSE, NoReservation, FALSE)]
    ELSE LET id == Len(api.reservations) + 1
             reservation == [squareIds |-> squareIds, userId |-> userId,
                             expiresAt |-> t + RESERVATION_TIME, status |-> "active"]
         IN  [api |-> [reservations |-> Append(api.reservations, reservation),
                       userReservations |-> indexSet(api.userReservations, userId, id)],
              response |-> ApiResponse(TRUE, id, FALSE)]

\* MockReservationAPI.cancelReservation(reservationId)
apiCancelReservation(api, reservationId) ==
    IF ~known(api, reservationId)
    THEN [api |-> api, response |-> ApiResponse(FALSE, NoReservation, FALSE)]
    ELSE [api |-> [reservations |-> [api.reservations EXCEPT ![reservationId].status = "cancelled"],
                   userReservations |-> indexDelete(api.userReservations,
                                                    api.reservations[reservationId].userId)],
          response |-> ApiResponse(TRUE, NoReservation, FALSE)]

\* MockReservationAPI.validateReservation(reservationId), its body running at time t
apiValidateReservation(api, reservationId, t) ==
    IF ~known(api, reservationId)
    THEN [api |-> api, response |-> ApiResponse(TRUE, NoReservation, FALSE)]
    ELSE LET reservation == api.reservations[reservationId]
             isValid == reservation.status = "active" /\ t < reservation.expiresAt
         IN  IF ~isValid /\ reservation.status = "active"
             THEN [api |-> [reservations |-> [api.reservations EXCEPT ![reservationId].status = "expired"],
                            userReservations |-> indexDelete(api.userReservations, reservation.userId)],
                   response |-> ApiResponse(TRUE, NoReservation, isValid)]
             ELSE [api |-> api, response |-> ApiResponse(TRUE, NoReservation, isValid)]

\* MockReservationAPI.getUserReservation(userId), its body running at time t
apiGetUserReservation(api, userId, t) ==
    IF userId \notin DOMAIN api.userReservations
    THEN [api |-> api, response |-> ApiResponse(TRUE, NoReservation, FALSE)]
    ELSE LET reservationId == api.userReservations[userId]
         IN  IF known(api, reservationId) /\ t >= api.reservations[reservationId].expiresAt
             THEN [api |-> [reservations |-> [api.reservations EXCEPT ![reservationId].status = "expired"],
                            userReservations |-> indexDelete(api.userReservations, userId)],
                   response |-> ApiResponse(TRUE, NoReservation, FALSE)]
             ELSE [api |-> api,
                   response |-> ApiResponse(TRUE, IF known(api, reservationId) THEN reservationId
                                                  ELSE NoReservation, FALSE)]

\* MockReservationAPI.extendReservation(reservationId, additionalMinutes)
apiExtendReservation(api, reservationId, additionalMinutes) ==
    IF ~known(api, reservationId)
    THEN [api |-> api, response |-> ApiResponse(FALSE, NoReservation, FALSE)]
    ELSE [api |-> [api EXCEPT !.reservations[reservationId].expiresAt = @ + minutes(additionalMinutes)],
          response |-> ApiResponse(TRUE, reservationId, FALSE)]

\* the state of the module after a method returned
apiReturns(result) ==
    /\ reservations' = result.api.reservations
    /\ userReservations' = result.api.userReservations
    /\ lastResponse' = result.response

-----------------------------------------------------------------------------
(* Selection store (src/lib/store/selectionStore.ts) *)

NoTime == <<>>              \* reservationTimeLeft: null
NoTimer == 0                \* reservationTimer: null

InitReservation ==
    /\ now = 0
    /\ reservations = <<>>
    /\ userReservations = <<>>
    /\ lastResponse = ApiResponse(TRUE, NoReservation, FALSE)
    /\ selectedTiles = {}
    /\ activeReservation = NoReservation
    /\ reservationTimeLeft = NoTime
    /\ isReservationExpiring = FALSE
    /\ reservationTimer = NoTimer
    /\ intervals = {}
    /\ pending = <<>>

-----------------------------------------------------------------------------
(* Initial state *)

\* the grid state one render reads
Frame(rs, cs, td) == [rows |-> rs, cols |-> cs, tileData |-> td]

InitialViewport(w, h) == [width |-> w, height |-> h, xOffset |-> 0, yOffset |-> 0, scale |-> SC]

InitWith(sizes, draws) ==
    /\ rows = INITIAL_ROWS
    /\ cols = INITIAL_COLS
    /\ \E drawn \in SUBSET draws : tileData = initialTileData(drawn)
    /\ \E size \in sizes : viewport = InitialViewport(size[1], size[2])
    /\ targetViewport = [xOffset |-> 0, yOffset |-> 0, scale |-> SC]
    /\ isPanning = FALSE
    /\ lastPointerPos = <<0, 0>>
    /\ hasMoved = FALSE
    /\ pointerDownPos = <<0, 0>>
    /\ clicked = NoClick
    /\ pointerAt = NoPos
    /\ downAt = NoPos
    /\ strayed = FALSE
    /\ textureCache = {}
    /\ sprites = <<>>
    /\ spritePool = <<>>
    /\ activeSpriteMap = <<>>
    /\ loads = [url \in ImageUrls |-> 0]
    /\ peakActive = 0
    /\ frames = <<Frame(rows, cols, tileData)>>
    /\ events = 0
    /\ InitReservation

Init == InitWith(WindowSizes, InitialDraws)

-----------------------------------------------------------------------------
(* Handlers *)

\* the pointer at pos is more than 5 pixels from the pixel from, in either axis
Far(pos, from) == Abs(pos[1] - from[1]) > 5 \/ Abs(pos[2] - from[2]) > 5

\* one animation frame: animate, then the render it causes
Tick ==
    /\ viewport' = animate(viewport, targetViewport)
    /\ Render(viewport', tileData, rows, cols)
    /\ frames' = <<Frame(rows, cols, tileData)>>
    /\ UNCHANGED <<resVars, gridVars, targetViewport, ptrVars, clickVars, events>>

\* handleResize
handleResize ==
    /\ events < MaxEvents
    /\ \E size \in WindowSizes :
          viewport' = [viewport EXCEPT !.width = size[1], !.height = size[2]]
    /\ Render(viewport', tileData, rows, cols)
    /\ frames' = <<Frame(rows, cols, tileData)>>
    /\ events' = events + 1
    /\ UNCHANGED <<resVars, gridVars, targetViewport, ptrVars, clickVars>>

\* handlePanStart; the mousedown that follows a pointer-down comes from the same pixel
handlePanStart ==
    /\ \E pos \in (IF downAt # NoPos THEN {pointerAt} ELSE PointerPositions) :
          lastPointerPos' = pos
    /\ pointerAt' = lastPointerPos'
    /\ isPanning' = TRUE
    /\ hasMoved' = FALSE
    /\ UNCHANGED <<resVars, gridVars, camVars, pointerDownPos, clicked, downAt, strayed,
                   spriteVars, frames, events>>

\* handlePanMove with the pointer at (clientX, clientY)
panMove(clientX, clientY) ==
    LET dx == clientX - lastPointerPos[1]
        dy == clientY - lastPointerPos[2]
    IN  /\ isPanning
        /\ hasMoved' = (hasMoved \/ Abs(dx) > 5 \/ Abs(dy) > 5)
        /\ lastPointerPos' = <<clientX, clientY>>
        /\ targetViewport' = constrainViewport(targetViewport.xOffset - dx * PX,
                                               targetViewport.yOffset - dy * PX,
                                               targetViewport.scale,
                                               viewport.width, viewport.height, rows, cols)
        /\ pointerAt' = <<clientX, clientY>>
        /\ strayed' = (strayed \/ (downAt # NoPos /\ Far(<<clientX, clientY>>, downAt)))
        /\ UNCHANGED <<resVars, gridVars, viewport, isPanning, pointerDownPos, clicked, downAt,
                       spriteVars, frames>>

handlePanMove ==
    /\ events < MaxEvents
    /\ \E pos \in PointerPositions : panMove(pos[1], pos[2])
    /\ events' = events + 1

\* handlePanEnd
handlePanEnd ==
    /\ isPanning
    /\ isPanning' = FALSE
    /\ UNCHANGED <<resVars, gridVars, camVars, lastPointerPos, hasMoved, clickVars, spriteVars, frames, events>>

\* event.data.getLocalPosition(container) taking the container for unscaled
getLocalPosition_unscaled(px, py, vp) == <<px * PX + vp.xOffset, py * PX + vp.yOffset>>

\* event.data.getLocalPosition(container): the canvas pixel (px, py) in the coordinates
\* of the container drawn at (-xOffset, -yOffset) with scale vp.scale, in 1/PX pixel
getLocalPosition(px, py, vp) ==
    <<FloorDiv((px * PX + vp.xOffset) * SC, vp.scale),
      FloorDiv((py * PX + vp.yOffset) * SC, vp.scale)>>

\* the canvas pixel pos lies in the window
inWindow(pos) == pos[1] < viewport.width /\ pos[2] < viewport.height

\* the canvas pixel pos is over g.hitArea = Rectangle(0, 0, cols * TILE_SIZE, rows * TILE_SIZE)
overGraphics(pos) ==
    LET local == getLocalPosition(pos[1], pos[2], viewport)
    IN  /\ 0 <= local[1] /\ local[1] < cols * TILE_SIZE * PX
        /\ 0 <= local[2] /\ local[2] < rows * TILE_SIZE * PX

\* handlePointerDown with the pointer at canvas pixel (px, py)
pointerDown(px, py) ==
    /\ pointerDownPos' = getLocalPosition(px, py, viewport)
    /\ pointerAt' = <<px, py>>
    /\ downAt' = <<px, py>>
    /\ strayed' = FALSE
    /\ UNCHANGED <<resVars, gridVars, camVars, ptrVars, clicked, spriteVars, frames, events>>

\* 'pointerdown' on the graphics; during a drag the pointer is where it was last seen
handlePointerDown ==
    \E pos \in (IF isPanning THEN {pointerAt} ELSE ClickPositions) : inWindow(pos) /\ overGraphics(pos) /\ pointerDown(pos[1], pos[2])

\* handlePointerMove with the pointer at canvas pixel (px, py)
pointerMove(px, py) ==
    LET pos == getLocalPosition(px, py, viewport)
        dx == Abs(pos[1] - pointerDownPos[1])
        dy == Abs(pos[2] - pointerDownPos[2])
    IN  /\ hasMoved' = (hasMoved \/ (pointerDownPos # <<0, 0>> /\ (dx > 5 * PX \/ dy > 5 * PX)))
        /\ pointerAt' = <<px, py>>
        /\ strayed' = (strayed \/ (downAt # NoPos /\ Far(<<px, py>>, downAt)))
        /\ UNCHANGED <<resVars, gridVars, camVars, isPanning, lastPointerPos, pointerDownPos, clicked,
                       downAt, spriteVars, frames, events>>

\* 'pointermove' on the graphics
handlePointerMove ==
    \E pos \in ClickPositions : inWindow(pos) /\ overGraphics(pos) /\ pointerMove(pos[1], pos[2])

\* handlePointerUp with the pointer at canvas pixel (px, py)
pointerUp(px, py) ==
    LET pos == getLocalPosition(px, py, viewport)
        col == FloorDiv(pos[1], TILE_SIZE * PX)
        row == FloorDiv(pos[2], TILE_SIZE * PX)
    IN  /\ clicked' = IF ~hasMoved /\ col >= 0 /\ col < cols /\ row >= 0 /\ row < rows
                      THEN <<row, col>>
                      ELSE NoClick
        /\ pointerDownPos' = <<0, 0>>
        /\ hasMoved' = FALSE
        /\ downAt' = NoPos
        /\ strayed' = FALSE
        /\ UNCHANGED <<resVars, gridVars, camVars, isPanning, lastPointerPos, pointerAt,
                       spriteVars, frames, events>>

\* 'pointerup' on the graphics, or 'pointerupoutside' after a pointer-down on it,
\* where the pointer was last seen
handlePointerUp ==
    /\ pointerAt # NoPos
    /\ overGraphics(pointerAt) \/ downAt # NoPos
    /\ pointerUp(pointerAt[1], pointerAt[2])

\* handleWheel writing the zoomed camera to the viewport state as well
wheel_writesActual(deltaY, mouseX, mouseY) ==
    LET req == wheelRequest(targetViewport, deltaY, mouseX, mouseY)
    IN  /\ targetViewport' = constrainViewport(req.xOffset, req.yOffset, req.scale,
                                               viewport.width, viewport.height, rows, cols)
        /\ viewport' = [viewport EXCEPT !.xOffset = targetViewport'.xOffset,
                                        !.yOffset = targetViewport'.yOffset,
                                        !.scale = targetViewport'.scale]
        /\ Render(viewport', tileData, rows, cols)
        /\ UNCHANGED <<resVars, gridVars, ptrVars, clickVars, frames>>

\* handleWheel with wheel delta deltaY and the pointer at (mouseX, mouseY) of the canvas
wheel(deltaY, mouseX, mouseY) ==
    LET req == wheelRequest(targetViewport, deltaY, mouseX, mouseY)
    IN  /\ targetViewport' = constrainViewport(req.xOffset, req.yOffset, req.scale,
                                               viewport.width, viewport.height, rows, cols)
        /\ UNCHANGED <<resVars, gridVars, viewport, ptrVars, clickVars, spriteVars, frames>>

handleWheel ==
    /\ events < MaxEvents
    /\ \E deltaY \in WheelDeltas, pos \in PointerPositions : wheel(deltaY, pos[1], pos[2])
    /\ events' = events + 1

\* the updater without the "skip if tile already exists" test
expandTileData_overwrite(prevData, drawn) ==
    [k \in DOMAIN prevData \cup drawn |-> IF k \in drawn THEN SoldTile ELSE prevData[k]]

\* the setTileData updater of expandGrid: a { sold: true } record on every drawn
\* coordinate of the new grid that has no record yet
expandTileData(prevData, drawn) ==
    [k \in DOMAIN prevData \cup drawn |-> IF k \in DOMAIN prevData THEN prevData[k] ELSE SoldTile]

\* expandGrid without its setCols call
expandUpdates_rowsOnly(rs, cs, drawn) ==
    <<[set |-> "tileData", value |-> drawn],
      [set |-> "rows", value |-> rs * 2]>>

\* the state updates expandGrid queues, in call order:
\* setTileData(updater), setRows(newRows), setCols(newCols)
expandUpdates(rs, cs, drawn) ==
    <<[set |-> "tileData", value |-> drawn],
      [set |-> "rows", value |-> rs * 2],
      [set |-> "cols", value |-> cs * 2]>>

\* one queued update applied to the grid state
applyUpdate(f, u) ==
    CASE u.set = "tileData" -> [f EXCEPT !.tileData = expandTileData(f.tileData, u.value)]
      [] u.set = "rows" -> [f EXCEPT !.rows = u.value]
      [] u.set = "cols" -> [f EXCEPT !.cols = u.value]

\* the grid state after the updates of one batch
RECURSIVE commit(_, _)
commit(f, queue) ==
    IF queue = <<>> THEN f ELSE commit(applyUpdate(f, Head(queue)), Tail(queue))

\* the grid states rendered while React works through the batches, one commit and
\* one re-render per batch
RECURSIVE commits(_, _)
commits(f, batches) ==
    IF batches = <<>> THEN <<>>
    ELSE LET g == commit(f, Head(batches)) IN <<g>> \o commits(g, Tail(batches))

\* every update committed and rendered on its own
expandBatches_commitEach(rs, cs, drawn) ==
    [i \in 1..3 |-> <<expandUpdates(rs, cs, drawn)[i]>>]

\* the updates of the click handler expandGrid reach React as one batch
expandBatches(rs, cs, drawn) == <<expandUpdates(rs, cs, drawn)>>

\* expandGrid; draws are the coordinates on which Math.random() < 0.1 may come out true
expandGridOn(draws) ==
    /\ rows < INITIAL_ROWS * 2 ^ MaxExpands
    /\ \E drawn \in SUBSET draws :
          frames' = commits(Frame(rows, cols, tileData), expandBatches(rows, cols, drawn))
    /\ rows' = Last(frames').rows
    /\ cols' = Last(frames').cols
    /\ tileData' = Last(frames').tileData
    /\ Render(viewport, tileData', rows', cols')
    /\ UNCHANGED <<resVars, viewport, targetViewport, ptrVars, clickVars, events>>

expandGrid == expandGridOn(ExpandDraws(rows * 2, cols * 2))

\* setTileImage(row, col, imageUrl) with (row, col) among coords
setTileImageOn(coords) ==
    /\ \E key \in coords, imageUrl \in ImageUrls :
          tileData' = MapSet(tileData, key, [sold |-> TRUE, imageUrl |-> imageUrl])
    /\ Render(viewport, tileData', rows, cols)
    /\ frames' = <<Frame(rows, cols, tileData')>>
    /\ UNCHANGED <<resVars, rows, cols, viewport, targetViewport, ptrVars, clickVars, events>>

setTileImage == setTileImageOn(UploadCoords)

-----------------------------------------------------------------------------
(* Selection store: selection, reservation actions and the countdown *)

\* a handle setInterval has not given out to a live interval
newHandle(live) == CHOOSE h \in 1..(Cardinality(live) + 1) : h \notin live

\* startReservationTimer without the clearInterval of the previous timer
startReservationTimer_noClear(timer, live) ==
    [timer |-> newHandle(live), live |-> live \cup {newHandle(live)}]

\* startReservationTimer: [timer, live] are reservationTimer and the live intervals
startReservationTimer(timer, live) ==
    LET cleared == IF timer # NoTimer THEN live \ {timer} ELSE live
    IN  [timer |-> newHandle(cleared), live |-> cleared \cup {newHandle(cleared)}]

\* stopReservationTimer
stopReservationTimer(timer, live) ==
    IF timer # NoTimer THEN [timer |-> NoTimer, live |-> live \ {timer}]
    ELSE [timer |-> timer, live |-> live]

setTimer(t) ==
    /\ reservationTimer' = t.timer
    /\ intervals' = t.live

\* the delay (ms) a method of the mock API awaits before its body
apiDelay(op) == CASE op = "create" -> 200 [] op = "cancel" -> 100 [] op = "extend" -> 100

\* the queues of pending calls after call is issued: its timer fires after every
\* pending timer of the same or a shorter delay, and before or after the others
enqueue(queue, call) ==
    LET blocked == {i \in 1..Len(queue) : apiDelay(queue[i].op) <= apiDelay(call.op)}
        first == IF blocked = {} THEN 1
                 ELSE 1 + CHOOSE i \in blocked : \A j \in blocked : j <= i
    IN  {SubSeq(queue, 1, p - 1) \o <<call>> \o SubSeq(queue, p, Len(queue)) :
            p \in first..(Len(queue) + 1)}

Call(op, id, squareIds, userId) == [op |-> op, id |-> id, squareIds |-> squareIds, userId |-> userId]

\* how many calls of kind op are pending
pendingCalls(op) == Cardinality({i \in 1..Len(pending) : pending[i].op = op})

\* selectRange(startRow, startCol, endRow, endCol), from a Shift + drag over the grid
selectRange ==
    /\ \E range \in SquareSets : selectedTiles' = range
    /\ selectedTiles' # selectedTiles
    /\ UNCHANGED <<now, apiVars, activeReservation, reservationTimeLeft, isReservationExpiring,
                   reservationTimer, intervals, pending, canvasVars>>

\* clearSelection, from the "Clear Selection" button of the selection panel; the
\* panel renders when tiles are selected and hides when a reservation is active
clearSelection ==
    /\ selectedTiles # {}
    /\ activeReservation = NoReservation
    /\ selectedTiles' = {}
    /\ UNCHANGED <<now, apiVars, activeReservation, reservationTimeLeft, isReservationExpiring,
                   reservationTimer, intervals, pending, canvasVars>>

\* createReservation(userId) up to its await, from the "Reserve Squares" button of
\* the selection panel
createReservation ==
    /\ selectedTiles # {}
    /\ activeReservation = NoReservation
    /\ Len(pending) < MaxPending
    /\ Len(reservations) + pendingCalls("create") < MaxReservations
    /\ now + RESERVATION_TIME <= MaxTime
    /\ pending' \in enqueue(pending, Call("create", NoReservation, selectedTiles,
                                           UserNames[Len(reservations) + pendingCalls("create") + 1]))
    /\ UNCHANGED <<now, apiVars, selectedTiles, activeReservation, reservationTimeLeft,
                   isReservationExpiring, reservationTimer, intervals, canvasVars>>

\* the reservation timer panel renders
timerShown == activeReservation # NoReservation /\ reservationTimeLeft # NoTime

\* cancelReservation() up to its await, from the "Cancel" button of the timer panel
cancelReservation ==
    /\ timerShown
    /\ Len(pending) < MaxPending
    /\ pending' \in enqueue(pending, Call("cancel", activeReservation, {}, UserNames[1]))
    /\ UNCHANGED <<now, apiVars, selectedTiles, activeReservation, reservationTimeLeft,
                   isReservationExpiring, reservationTimer, intervals, canvasVars>>

\* extendReservation(30) up to its await, from the "+30 min" button, which the timer
\* panel shows while isReservationExpiring
extendReservation ==
    /\ timerShown
    /\ isReservationExpiring
    /\ Len(pending) < MaxPending
    /\ reservations[activeReservation].expiresAt
          + (pendingCalls("extend") + 1) * minutes(EXTEND_MINUTES) <= MaxTime
    /\ pending' \in enqueue(pending, Call("extend", activeReservation, {}, UserNames[1]))
    /\ UNCHANGED <<now, apiVars, selectedTiles, activeReservation, reservationTimeLeft,
                   isReservationExpiring, reservationTimer, intervals, canvasVars>>

\* createReservation after its await: the body of the mock method, then the store update
createReturns(call) ==
    LET result == apiCreateReservation(apiState, SeqOfSet(call.squareIds), call.userId, now)
    IN  /\ apiReturns(result)
        /\ IF result.response.success /\ result.response.data # NoReservation
           THEN /\ activeReservation' = result.response.data
                /\ reservationTimeLeft' =
                      <<result.api.reservations[result.response.data].expiresAt - now>>
                /\ setTimer(startReservationTimer(reservationTimer, intervals))
           ELSE UNCHANGED <<activeReservation, reservationTimeLeft, reservationTimer, intervals>>
        /\ UNCHANGED <<selectedTiles, isReservationExpiring>>

\* cancelReservation after its await
cancelReturns(call) ==
    /\ apiReturns(apiCancelReservation(apiState, call.id))
    /\ activeReservation' = NoReservation
    /\ reservationTimeLeft' = NoTime
    /\ isReservationExpiring' = FALSE
    /\ setTimer(stopReservationTimer(reservationTimer, intervals))
    /\ UNCHANGED selectedTiles

\* extendReservation after its await
extendReturns(call) ==
    LET result == apiExtendReservation(apiState, call.id, EXTEND_MINUTES)
    IN  /\ apiReturns(result)
        /\ IF result.response.success /\ result.response.data # NoReservation
           THEN /\ activeReservation' = result.response.data
                /\ reservationTimeLeft' =
                      <<result.api.reservations[result.response.data].expiresAt - now>>
           ELSE UNCHANGED <<activeReservation, reservationTimeLeft>>
        /\ UNCHANGED <<selectedTiles, isReservationExpiring, reservationTimer, intervals>>

\* the delay of the first pending call elapses: the mock method runs to its return
\* and the store action that awaited it runs to its end
apiCallReturns ==
    /\ pending # <<>>
    /\ LET call == Head(pending)
       IN  CASE call.op = "create" -> createReturns(call)
             [] call.op = "cancel" -> cancelReturns(call)
             [] call.op = "extend" -> extendReturns(call)
    /\ pending' = Tail(pending)
    /\ UNCHANGED <<now, canvasVars>>

\* updateReservationTime(); the store holds the reservation object of the mock API,
\* so expiresAt is read from reservations
updateReservationTime ==
    LET timeLeft == reservations[activeReservation].expiresAt - now
    IN  IF timeLeft <= 0
        THEN /\ activeReservation' = NoReservation
             /\ reservationTimeLeft' = NoTime
             /\ isReservationExpiring' = FALSE
             /\ selectedTiles' = {}
             /\ setTimer(stopReservationTimer(reservationTimer, intervals))
        ELSE /\ reservationTimeLeft' = <<timeLeft>>
             /\ isReservationExpiring' = (timeLeft <= WARNING_TIME)
             /\ UNCHANGED <<activeReservation, selectedTiles, reservationTimer, intervals>>

\* a live interval fires its callback
intervalFires ==
    /\ intervals # {}
    /\ IF activeReservation # NoReservation
       THEN updateReservationTime
       ELSE UNCHANGED <<selectedTiles, activeReservation, reservationTimeLeft,
                        isReservationExpiring, reservationTimer, intervals>>
    /\ UNCHANGED <<now, apiVars, pending, canvasVars>>

-----------------------------------------------------------------------------
(* Time, and callers of the mock reservation API *)

\* time passes, up to one of the moments at which the model looks again
AdvanceTime ==
    /\ \E t \in Times :
          /\ now < t
          /\ t <= MaxTime
          /\ pendingCalls("create") > 0 => t + RESERVATION_TIME <= MaxTime
          /\ now' = t
    /\ UNCHANGED <<apiVars, storeVars, canvasVars>>

\* a caller's createReservation(squareIds, userId) returns
callCreateReservation ==
    /\ Len(reservations) < MaxReservations
    /\ now + RESERVATION_TIME <= MaxTime
    /\ \E squareIds \in {{<<0, 0>>}}, userId \in Users :
          apiReturns(apiCreateReservation(apiState, SeqOfSet(squareIds), userId, now))
    /\ UNCHANGED <<now, storeVars, canvasVars>>

\* a caller's cancelReservation(reservationId) returns
callCancelReservation ==
    /\ \E reservationId \in 1..MaxReservations :
          apiReturns(apiCancelReservation(apiState, reservationId))
    /\ UNCHANGED <<now, storeVars, canvasVars>>

\* a caller's validateReservation(reservationId) returns
callValidateReservation ==
    /\ \E reservationId \in 1..MaxReservations :
          apiReturns(apiValidateReservation(apiState, reservationId, now))
    /\ UNCHANGED <<now, storeVars, canvasVars>>

\* a caller's getUserReservation(userId) returns
callGetUserReservation ==
    /\ \E userId \in Users : apiReturns(apiGetUserReservation(apiState, userId, now))
    /\ UNCHANGED <<now, storeVars, canvasVars>>

\* a caller's extendReservation(reservationId, 30) returns
callExtendReservation ==
    /\ \E reservationId \in 1..MaxReservations :
          /\ known(apiState, reservationId) =>
                reservations[reservationId].expiresAt + minutes(EXTEND_MINUTES) <= MaxTime
          /\ apiReturns(apiExtendReservation(apiState, reservationId, EXTEND_MINUTES))
    /\ UNCHANGED <<now, storeVars, canvasVars>>

Next ==
    \/ Tick
    \/ handleResize
    \/ handlePanStart
    \/ handlePanMove
    \/ handlePanEnd
    \/ handleWheel
    \/ expandGrid
    \/ setTileImage
    \/ handlePointerDown
    \/ handlePointerMove
    \/ handlePointerUp
    \/ AdvanceTime
    \/ selectRange
    \/ clearSelection
    \/ createReservation
    \/ cancelReservation
    \/ extendReservation
    \/ apiCallReturns
    \/ intervalFires

Spec == Init /\ [][Next]_vars

-----------------------------------------------------------------------------
(* The viewport controller on its own: the window, the pointer and the wheel *)
(* act on a grid whose random draws all come out false.                      *)

InitCamera == InitWith(WindowSizes \cup SmallWindowSizes, {})

expandGridEmpty == expandGridOn({})

NextCamera ==
    \/ Tick
    \/ handleResize
    \/ handlePanStart
    \/ handlePanMove
    \/ handlePanEnd
    \/ handleWheel
    \/ expandGridEmpty

SpecCamera == InitCamera /\ [][NextCamera]_vars


\* requestAnimationFrame reschedules animate after every frame
SpecCameraFair == SpecCamera /\ WF_vars(Tick)

-----------------------------------------------------------------------------
(* Legal cameras, stated from the bounds of the specification:               *)
(*   maxScale = height / (MIN_VISIBLE_TILES * TILE_SIZE)                     *)
(*   minScale = max(height / (MAX_VISIBLE_TILES * TILE_SIZE),                *)
(*                  height / (rows * TILE_SIZE))                             *)
(*   0 <= offset <= max(0, dimension * TILE_SIZE * scale - viewport extent)  *)
(* The inequalities are cross-multiplied, so no quotient is rounded.         *)

LegalScale(scale, h, rs) ==
    /\ h * SC <= scale * (MAX_VISIBLE_TILES * TILE_SIZE)
    /\ h * SC <= scale * (rs * TILE_SIZE)
    /\ scale * (MIN_VISIBLE_TILES * TILE_SIZE) <= h * SC

LegalOffset(offset, scale, extent, n) ==
    /\ 0 <= offset
    /\ offset * SCPX <= Max(0, n * TILE_SIZE * scale - extent * SC)

LegalCamera(cam, w, h, rs, cs) ==
    /\ LegalScale(cam.scale, h, rs)
    /\ LegalOffset(cam.xOffset, cam.scale, w, cs)
    /\ LegalOffset(cam.yOffset, cam.scale, h, rs)

ActualLegal == LegalCamera(viewport, viewport.width, viewport.height, rows, cols)
TargetLegal == LegalCamera(targetViewport, viewport.width, viewport.height, rows, cols)

ActualAtTarget ==
    /\ viewport.xOffset = targetViewport.xOffset
    /\ viewport.yOffset = targetViewport.yOffset
    /\ viewport.scale = targetViewport.scale

-----------------------------------------------------------------------------
\* C1: in every reachable state the actual camera is within the legal zoom and pan
\* bounds of the current grid dimensions and viewport size.
C1_ActualAlwaysLegal == ActualLegal

-----------------------------------------------------------------------------
\* c is the legal scale nearest to the requested scale s
NearestLegalScale(c, s, h, rs) ==
    /\ LegalScale(c, h, rs)
    /\ LegalScale(s, h, rs) => c = s
    /\ c < s => ~LegalScale(c + 1, h, rs)
    /\ c > s => ~LegalScale(c - 1, h, rs)

\* o is the legal offset nearest to the requested offset x, at scale c
NearestLegalOffset(o, x, c, extent, n) ==
    /\ LegalOffset(o, c, extent, n)
    /\ LegalOffset(x, c, extent, n) => o = x
    /\ o < x => ~LegalOffset(o + 1, c, extent, n)
    /\ o > x => o = 0

\* the pan at pointer position pos stores target.offset - delta, clamped
PanStored(pos) ==
    LET c == targetViewport'.scale
    IN  /\ NearestLegalScale(c, targetViewport.scale, viewport.height, rows)
        /\ NearestLegalOffset(targetViewport'.xOffset,
                              targetViewport.xOffset - (pos[1] - lastPointerPos[1]) * PX,
                              c, viewport.width, cols)
        /\ NearestLegalOffset(targetViewport'.yOffset,
                              targetViewport.yOffset - (pos[2] - lastPointerPos[2]) * PX,
                              c, viewport.height, rows)

\* old_scale * (1 - k * wheel_delta) with k = 1 / ZOOM_SPEED_DEN, on the scale grid
ZoomRequestedScale(deltaY) ==
    RoundDiv(targetViewport.scale * (ZOOM_SPEED_DEN - deltaY), ZOOM_SPEED_DEN)

\* the wheel stores old_scale * (1 - k * deltaY), clamped
ZoomStored(deltaY) ==
    NearestLegalScale(targetViewport'.scale, ZoomRequestedScale(deltaY), viewport.height, rows)

\* C2: every pan move and every wheel event stores a target camera within the legal
\* bounds of the grid and viewport size current at the call; the pan stores the
\* clamped target offset minus the pointer delta at the target scale, the wheel
\* stores the clamped old_scale * (1 - k * deltaY).
C2_PanZoomStoreLegalTarget ==
    [][/\ \A pos \in PointerPositions :
             panMove(pos[1], pos[2]) => (TargetLegal' /\ PanStored(pos))
       /\ \A deltaY \in WheelDeltas, pos \in PointerPositions :
             wheel(deltaY, pos[1], pos[2]) => (TargetLegal' /\ ZoomStored(deltaY))]_vars

\* a pan has been stored at the upper pan bound, and the scale is a clamped one
C2_Witness ==
    /\ events > 0
    /\ targetViewport.xOffset > 0
    /\ targetViewport.xOffset * SCPX
          = cols * TILE_SIZE * targetViewport.scale - viewport.width * SC
    /\ TargetLegal

-----------------------------------------------------------------------------
\* C3: immediately after any resize the target camera is within the legal zoom and
\* pan bounds of the new viewport size.
C3_ResizeReclampsTarget ==
    [][(viewport'.width # viewport.width \/ viewport'.height # viewport.height)
          => LegalCamera(targetViewport', viewport'.width, viewport'.height, rows', cols')]_vars

-----------------------------------------------------------------------------
\* the largest distance of a component of actual from target, in grid steps
Distance ==
    Max(Abs(targetViewport.xOffset - viewport.xOffset),
        Max(Abs(targetViewport.yOffset - viewport.yOffset),
            Abs(targetViewport.scale - viewport.scale)))

\* C4: with the target fixed, ticks bring actual to equal target in all three
\* components after a bounded number of ticks (every tick that does not reach the
\* target shortens the largest component distance, so at most Distance ticks are
\* needed), and every later tick leaves actual equal to target.
C4_TicksConverge ==
    /\ [][Tick => (ActualAtTarget' \/ Distance' < Distance)]_vars
    /\ [][(Tick /\ ActualAtTarget) => ActualAtTarget']_vars
    /\ <>[]ActualAtTarget

\* the animation has run from a distant camera to the target after an input
C4_Witness ==
    /\ events > 0
    /\ ActualAtTarget
    /\ viewport.scale # SC
    /\ viewport.xOffset > 0

-----------------------------------------------------------------------------
Between(a, v, b) == (a <= v /\ v <= b) \/ (b <= v /\ v <= a)

\* C5: a tick never overshoots: each component of actual after the tick lies between
\* its value before the tick and the target value (inclusive).
C5_TickNeverOvershoots ==
    [][Tick => /\ Between(viewport.xOffset, viewport'.xOffset, targetViewport.xOffset)
               /\ Between(viewport.yOffset, viewport'.yOffset, targetViewport.yOffset)
               /\ Between(viewport.scale, viewport'.scale, targetViewport.scale)]_vars

\* actual is under way: it has left its start and has not reached the target in
\* any component
C5_Witness ==
    /\ viewport.xOffset > 0 /\ viewport.xOffset < targetViewport.xOffset
    /\ viewport.scale < SC /\ viewport.scale > targetViewport.scale

-----------------------------------------------------------------------------
\* The screen rectangle of tile (r, c) under the actual camera overlaps the viewport
\* rectangle [0, width] x [0, height] when its left edge c * TILE_SIZE * scale - xOffset
\* is left of the viewport's right edge and its right edge is right of 0, and
\* likewise for its row (the inequalities are multiplied by SC).
ColOnScreen(c) ==
    /\ c * TILE_SIZE * viewport.scale - viewport.xOffset * SCPX < viewport.width * SC
    /\ (c + 1) * TILE_SIZE * viewport.scale - viewport.xOffset * SCPX > 0

RowOnScreen(r) ==
    /\ r * TILE_SIZE * viewport.scale - viewport.yOffset * SCPX < viewport.height * SC
    /\ (r + 1) * TILE_SIZE * viewport.scale - viewport.yOffset * SCPX > 0

actualBounds == cullBounds(viewport, rows, cols)

\* the tile sets Rs x Cs and Rt x Ct are equal
SameTiles(Rs, Cs, Rt, Ct) ==
    \/ Rs = Rt /\ Cs = Ct
    \/ (Rs = {} \/ Cs = {}) /\ (Rt = {} \/ Ct = {})

\* C8: for every legal camera the visible rectangle of the renderer holds exactly
\* the tiles of the grid whose screen rectangle intersects the viewport rectangle:
\* the tiles of [startRow, endRow) x [startCol, endCol) are the tiles (r, c) of the
\* grid with row r and column c on screen.
C8_CullingExact ==
    LET b == actualBounds
    IN  ActualLegal =>
           SameTiles(b.startRow..(b.endRow - 1), b.startCol..(b.endCol - 1),
                     {r \in 0..(rows - 1) : RowOnScreen(r)},
                     {c \in 0..(cols - 1) : ColOnScreen(c)})

\* a legal camera that cuts the first and the last visible tile column and leaves
\* part of the grid off screen
C8_Witness ==
    /\ ActualLegal
    /\ viewport.xOffset > 0
    /\ (viewport.xOffset * SCPX) % (TILE_SIZE * viewport.scale) # 0
    /\ ((viewport.xOffset + viewport.width * PX) * SCPX) % (TILE_SIZE * viewport.scale) # 0
    /\ actualBounds.endCol < cols
    /\ actualBounds.endRow < rows

-----------------------------------------------------------------------------
(* The renderer and the sprite subsystem: a small window over a grid with    *)
(* random sold tiles and uploaded images, panned while the camera animates.  *)

InitRender == InitWith(SmallWindowSizes, InitialDraws)

NextRender ==
    \/ Tick
    \/ handlePanStart
    \/ handlePanMove
    \/ setTileImage

SpecRender == InitRender /\ [][NextRender]_vars

-----------------------------------------------------------------------------
(* The tile store on its own: uploads and expansions under a resting camera. *)

\* the coordinates setTileImage is called with: on the grid and outside it
AnywhereCoords == UploadCoords \cup OutsideCoords

setTileImageAnywhere == setTileImageOn(AnywhereCoords)

NextStore ==
    \/ setTileImageAnywhere
    \/ expandGrid

SpecStore == InitRender /\ [][NextStore]_vars

-----------------------------------------------------------------------------
\* the visible image-bearing tiles: the stored tiles inside the culling rectangle of
\* the actual camera whose record has an image
VisibleImageSet == {k \in DOMAIN tileData : tileData[k].imageUrl # NoImage /\ inRect(actualBounds, k)}

-----------------------------------------------------------------------------
\* the number of places (pool slots and active entries) that hold sprite sp
Holders(sp) ==
    Cardinality({i \in 1..Len(spritePool) : spritePool[i] = sp})
    + Cardinality({i \in 1..Len(activeSpriteMap) : activeSpriteMap[i][2] = sp})

\* C7: no sprite is both active and pooled, none is twice in the pool or active for
\* two tiles, and none is lost: every sprite whose tile left the visible image set
\* has been returned to the pool exactly once, so each allocated sprite is held in
\* exactly one place, and a pooled sprite is unbound and invisible.
C7_SpritesHeldOnce ==
    /\ \A sp \in 1..Len(sprites) : Holders(sp) = 1
    /\ SeqRange(spritePool) \cup activeSprites(activeSpriteMap) = 1..Len(sprites)
    /\ \A i \in 1..Len(spritePool) :
          sprites[spritePool[i]] = [texture |-> EMPTY, visible |-> FALSE]

\* a sprite returned to the pool next to an active one
C7_Witness ==
    /\ Len(spritePool) > 0
    /\ Len(activeSpriteMap) > 0

-----------------------------------------------------------------------------
\* C9 as claimed: at every LOD the renderer looks up only tiles inside the visible
\* rectangle of the culling step.
C9_VisitsOnlyVisible ==
    \A t \in visitedTiles(viewport, rows, cols) : inRect(actualBounds, t)

\* the chunk coordinate of a tile coordinate
ChunkOf(n) == n \div CHUNK_SIZE

\* C9 amended: at Low and Full LOD the renderer looks up only tiles inside the
\* visible rectangle; at Minimal LOD it looks up only tiles of the grid that lie in
\* a chunk holding a tile of the visible rectangle.
C9_VisitsVisibleOrItsChunks ==
    LET b == actualBounds
    IN  \A t \in visitedTiles(viewport, rows, cols) :
           IF isMinimalLOD(viewport.scale)
           THEN /\ t[1] \in 0..(rows - 1) /\ t[2] \in 0..(cols - 1)
                /\ \E r \in b.startRow..(b.endRow - 1) : ChunkOf(r) = ChunkOf(t[1])
                /\ \E c \in b.startCol..(b.endCol - 1) : ChunkOf(c) = ChunkOf(t[2])
           ELSE inRect(b, t)

\* a frame at Minimal LOD whose visible rectangle ends inside a chunk, and the
\* renderer has scanned that chunk to its end
C9_Witness ==
    /\ isMinimalLOD(viewport.scale)
    /\ cols > CHUNK_SIZE
    /\ actualBounds.endCol < CHUNK_SIZE
    /\ <<0, CHUNK_SIZE - 1>> \in visitedTiles(viewport, rows, cols)
    /\ <<0, CHUNK_SIZE>> \notin visitedTiles(viewport, rows, cols)

-----------------------------------------------------------------------------
\* C10: after each expand the grid has twice the rows and twice the columns, and
\* every record stored before the call is stored unchanged at the same coordinate.
C10_ExpandDoublesAndKeeps ==
    [][rows' # rows =>
          /\ rows' = 2 * rows
          /\ cols' = 2 * cols
          /\ \A k \in DOMAIN tileData : k \in DOMAIN tileData' /\ tileData'[k] = tileData[k]]_vars

\* an expanded grid that kept an image record on a drawn coordinate and received a
\* backfill record on a new coordinate
C10_Witness ==
    /\ rows = 2 * INITIAL_ROWS /\ cols = 2 * INITIAL_COLS
    /\ <<0, 0>> \in imageKeys(tileData)
    /\ <<rows - 1, cols - 1>> \in DOMAIN tileData

-----------------------------------------------------------------------------
-----------------------------------------------------------------------------
\* C12: the backfill of expand marks only new coordinates: every coordinate of
\* the grid as it was before the call reads the same record after the call,
\* the coordinates without a stored record (default tiles) included.
C12_BackfillOnlyNewCoordinates ==
    [][rows' # rows =>
          \A r \in 0..(rows - 1), c \in 0..(cols - 1) :
             getTile(tileData', <<r, c>>) = getTile(tileData, <<r, c>>)]_vars

-----------------------------------------------------------------------------
\* (row, col) is a coordinate of the rs x cs grid
InGrid(key, rs, cs) == key[1] \in 0..(rs - 1) /\ key[2] \in 0..(cs - 1)

\* C13: set_tile on a coordinate outside [0,rows) x [0,cols) is rejected or
\* ignored: it leaves the key set and the size of the tile store as they were, so
\* no set_tile step adds a key that lies outside the grid.
C13_SetOutsideGridIgnored ==
    [][rows' = rows =>
          \A key \in DOMAIN tileData' \ DOMAIN tileData : InGrid(key, rows, cols)]_vars

-----------------------------------------------------------------------------
\* the tiles of the grid whose state differs from the default record
NonDefaultTiles ==
    {key \in (0..(rows - 1)) \X (0..(cols - 1)) : getTile(tileData, key) # DefaultTile}

\* C14: in every reachable state the tile store holds at most M records, M being
\* the number of tiles of the grid whose state differs from the default.
C14_SparseBound == Cardinality(DOMAIN tileData) <= Cardinality(NonDefaultTiles)

-----------------------------------------------------------------------------
\* the records a tile can have
TileRecords == [sold : BOOLEAN, imageUrl : ImageUrls \cup {NoImage}]

\* the patch of set_tile as the component issues it: occupied, with an image
ImagePatch(imageUrl) == [sold |-> TRUE, imageUrl |-> imageUrl]

\* record merged with patch: the fields of patch replace those of record
Merge(record, patch) ==
    [field \in DOMAIN record \cup DOMAIN patch |->
        IF field \in DOMAIN patch THEN patch[field] ELSE record[field]]

\* the coordinates read back: the grid, the stored keys and the out-of-grid ones
ReadCoords == ((0..(rows - 1)) \X (0..(cols - 1))) \cup DOMAIN tileData \cup OutsideCoords

\* C15: get_tile never fails, returning the stored record or else the default;
\* after set_tile(row, col, patch) get_tile(row, col) is the previous (or
\* default) record merged with patch and every other coordinate reads as before.
C15_GetAfterSet ==
    /\ [](\A key \in ReadCoords :
             /\ getTile(tileData, key) \in TileRecords
             /\ key \in DOMAIN tileData => getTile(tileData, key) = tileData[key]
             /\ key \notin DOMAIN tileData => getTile(tileData, key) = DefaultTile)
    /\ [][(rows' = rows /\ tileData' # tileData) =>
            \E key \in DOMAIN tileData', imageUrl \in ImageUrls :
               /\ getTile(tileData', key) = Merge(getTile(tileData, key), ImagePatch(imageUrl))
               /\ \A other \in (ReadCoords \cup DOMAIN tileData') \ {key} :
                     getTile(tileData', other) = getTile(tileData, other)]_vars

\* an image set on a tile that was stored as sold, next to another stored tile
C15_Witness ==
    /\ rows = INITIAL_ROWS
    /\ <<3, 3>> \in DOMAIN tileData /\ tileData[<<3, 3>>] = SoldTile
    /\ <<0, 0>> \in imageKeys(tileData)
    /\ <<2, 2>> \notin DOMAIN tileData

-----------------------------------------------------------------------------
(* Taps and drags: the pointer handlers of the Pixi graphics next to the pan *)
(* handlers of the surrounding div, while the camera animates.               *)

NextClick ==
    \/ Tick
    \/ handlePanStart
    \/ handlePanMove
    \/ handlePanEnd
    \/ handlePointerDown
    \/ handlePointerMove
    \/ handlePointerUp

InitClick == InitWith(ClickWindowSizes \cup SmallWindowSizes, {})

SpecClick == InitClick /\ [][NextClick]_vars

\* the tile under canvas pixel pos for the actual camera:
\* row = floor((py + y_offset) / (TILE_SIZE * scale)), col likewise
TileUnder(pos) ==
    <<FloorDiv((pos[2] * PX + viewport.yOffset) * SCPX, TILE_SIZE * viewport.scale),
      FloorDiv((pos[1] * PX + viewport.xOffset) * SCPX, TILE_SIZE * viewport.scale)>>

\* C16: a pointer-up reports a tile click only for a tap: no click when the
\* pointer was ever more than 5 screen pixels from the pointer-down position in
\* either axis, and a click when it stayed within 5 pixels (on a tile).
C16_ClickOnlyForTap ==
    [][(downAt # NoPos /\ handlePointerUp) =>
          LET far == strayed \/ Far(pointerAt, downAt)
          IN  /\ far => clicked' = NoClick
              /\ (~far /\ InGrid(TileUnder(pointerAt), rows, cols)) => clicked' # NoClick]_vars

\* C17: a tap at canvas pixel (px, py) resolves to
\* col = floor((px + x_offset) / (TILE_SIZE * scale)) and
\* row = floor((py + y_offset) / (TILE_SIZE * scale)) of the actual camera, and a
\* tile is reported only when 0 <= row < rows and 0 <= col < cols.
C17_ClickResolution ==
    [][(~hasMoved /\ handlePointerUp) =>
          clicked' = IF InGrid(TileUnder(pointerAt), rows, cols)
                     THEN TileUnder(pointerAt)
                     ELSE NoClick]_vars

\* the tap of the example: pixel (125,125), offset (0,0), scale 1 gives tile (2,2)
C17_Witness ==
    /\ clicked = <<2, 2>>
    /\ viewport.scale = SC /\ viewport.xOffset = 0 /\ viewport.yOffset = 0

-----------------------------------------------------------------------------
\* C18: at Full LOD (scale >= T_low) no placeholder fill is emitted for an
\* image-bearing tile, so no tile is drawn by both a placeholder and a sprite.
C18_NoPlaceholderAtFullLOD ==
    /\ ~isLowLOD(viewport.scale) =>
          placeholderTiles(viewport, tileData, rows, cols) = {}
    /\ activeKeys(activeSpriteMap) \cap placeholderTiles(viewport, tileData, rows, cols) = {}

\* how often key occurs in list
Occurrences(key, list) == Cardinality({i \in 1..Len(list) : list[i] = key})

\* C19: at Low and Full LOD every tile of the visible rectangle is appended to
\* exactly one of the three buckets, exactly once, and the frame emits exactly
\* one batched fill per non-empty bucket, so at most three fills.
C19_ThreeBucketsOneFillEach ==
    ~isMinimalLOD(viewport.scale) =>
       LET buckets == tileBuckets(viewport, tileData, rows, cols)
           fills == batchedFills(viewport, tileData, rows, cols)
           names == DOMAIN buckets
       IN  /\ Cardinality(names) = 3
           /\ \A r \in actualBounds.startRow..(actualBounds.endRow - 1),
                 c \in actualBounds.startCol..(actualBounds.endCol - 1) :
                 /\ Cardinality({name \in names : Occurrences(<<r, c>>, buckets[name]) > 0}) = 1
                 /\ \A name \in names : Occurrences(<<r, c>>, buckets[name]) <= 1
           /\ \A name \in names :
                 /\ \A i \in 1..Len(buckets[name]) : inRect(actualBounds, buckets[name][i])
                 /\ Occurrences(name, fills) = (IF Len(buckets[name]) > 0 THEN 1 ELSE 0)
           /\ Len(fills) <= 3

\* a frame at Low LOD that shows available, sold and image tiles and fills thrice
C19_Witness ==
    /\ rendererLOD(viewport.scale) = "Low"
    /\ Len(batchedFills(viewport, tileData, rows, cols)) = 3
    /\ Len(tileBuckets(viewport, tileData, rows, cols)["imageTiles"]) = 2

\* the LOD bucket of a scale: Minimal below T_minimal, Low from T_minimal up to
\* T_low, Full from T_low on
LODOf(scale) ==
    CASE scale < LOD_MINIMAL_SCALE -> "Minimal"
      [] LOD_MINIMAL_SCALE <= scale /\ scale < LOD_LOW_SCALE -> "Low"
      [] scale >= LOD_LOW_SCALE -> "Full"

\* C20: the LOD bucket is a function of actual.scale alone, exactly one bucket
\* for every scale (Minimal iff scale < 0.1, Low iff 0.1 <= scale < 0.5, Full
\* iff scale >= 0.5), and the stats panel reports the bucket the renderer uses.
C20_LODByScale ==
    /\ rendererLOD(viewport.scale) = LODOf(viewport.scale)
    /\ statsLOD(viewport.scale) = rendererLOD(viewport.scale)
    /\ Cardinality({b \in {"Minimal", "Low", "Full"} : rendererLOD(viewport.scale) = b}) = 1

\* a frame at Minimal LOD, below both thresholds
C20_Witness ==
    /\ viewport.scale < LOD_MINIMAL_SCALE
    /\ rendererLOD(viewport.scale) = "Minimal"
    /\ statsLOD(viewport.scale) = "Minimal"

-----------------------------------------------------------------------------
\* scales on either side of T_low
LowScales == {LOD_MINIMAL_SCALE, LOD_LOW_SCALE - 1}
FullScales == {LOD_LOW_SCALE, SC}

\* the batches without their stroke flag
Unstroked(batches) == [i \in 1..Len(batches) |-> [fill |-> batches[i].fill, tiles |-> batches[i].tiles]]

\* C21: for a fixed tile store and a fixed visible rectangle the batches hold the
\* same tiles at Low and at Full LOD, and the border strokes are drawn iff the
\* LOD is Full; a frame that crosses T_low downward over an unchanged rectangle
\* and store keeps the tiles of every batch and drops the strokes.
C21_LowAndFullSameBatches ==
    /\ [](\A low \in LowScales, full \in FullScales :
             LET atLow == drawBatchesIn(actualBounds, low, tileData)
                 atFull == drawBatchesIn(actualBounds, full, tileData)
             IN  /\ Unstroked(atLow) = Unstroked(atFull)
                 /\ \A i \in 1..Len(atLow) : ~atLow[i].stroked
                 /\ \A i \in 1..Len(atFull) : atFull[i].stroked)
    /\ [](\A i \in 1..Len(drawBatches(viewport, tileData, rows, cols)) :
             drawBatches(viewport, tileData, rows, cols)[i].stroked
                <=> (LODOf(viewport.scale) = "Full"))
    /\ [][(/\ LODOf(viewport.scale) = "Full" /\ LODOf(viewport'.scale) = "Low"
           /\ actualBounds' = actualBounds /\ tileData' = tileData) =>
             LET before == drawBatches(viewport, tileData, rows, cols)
                 after == drawBatches(viewport', tileData', rows', cols')
             IN  /\ Unstroked(after) = Unstroked(before)
                 /\ \A i \in 1..Len(before) : before[i].stroked
                 /\ \A i \in 1..Len(after) : ~after[i].stroked]_vars

\* the first frame below T_low, over the rectangle the frame above T_low had, with
\* an image tile and available tiles in it
C21_Witness ==
    /\ LODOf(viewport.scale) = "Low"
    /\ cullBounds([viewport EXCEPT !.scale = LOD_LOW_SCALE], rows, cols) = actualBounds
    /\ actualBounds.endRow = 2 /\ actualBounds.endCol = 2
    /\ Len(drawBatches(viewport, tileData, rows, cols)) = 2
    /\ drawBatches(viewport, tileData, rows, cols)[2].fill = "imageTiles"

-----------------------------------------------------------------------------
\* C22: when the texture of an image cannot be loaded, getOrCreateSprite returns
\* the failure value and leaves the sprites, the pool and the texture cache as
\* they were; and the failure does not keep the other tiles of the frame from
\* their sprites: every visible image tile whose texture is cached has an active
\* sprite, every sprite is bound to a cached texture or to none, and whichever
\* textures fail in the next frame, the tiles whose textures load get sprites.
C22_LoadFailureIsLocal ==
    /\ \A url \in ImageUrls \ textureCache :
          getOrCreateSprite(spriteState, url, {}) = [ss |-> spriteState, sprite |-> NoSprite]
    /\ \A k \in VisibleImageSet :
          tileData[k].imageUrl \in textureCache => k \in activeKeys(activeSpriteMap)
    /\ \A sp \in 1..Len(sprites) : sprites[sp].texture \in textureCache \cup {EMPTY}
    /\ \A loadable \in SUBSET (ImageUrls \ textureCache) :
          LET after == spriteEffect(spriteState, viewport, tileData, rows, cols, loadable)
          IN  /\ \A k \in VisibleImageSet :
                    tileData[k].imageUrl \in textureCache \cup loadable
                       => k \in activeKeys(after.activeSpriteMap)
              /\ after.textureCache \subseteq textureCache \cup loadable

\* a frame in which the texture of tile (0,0) failed to load while the tile (2,2)
\* after it got its sprite, the only sprite allocated
C22_Witness ==
    /\ <<0, 0>> \in VisibleImageSet
    /\ tileData[<<0, 0>>].imageUrl \notin textureCache
    /\ <<2, 2>> \in activeKeys(activeSpriteMap)
    /\ Len(sprites) = 1

-----------------------------------------------------------------------------
\* C23: an image url whose load succeeded is loaded at most once: a call of
\* getOrCreateSprite on a cached url loads nothing and binds the cached texture,
\* and cache entries are never removed or replaced (a url is in the cache
\* exactly when it has been loaded, once).
C23_LoadedAtMostOnce ==
    /\ [](\A url \in ImageUrls :
             /\ loads[url] <= 1
             /\ url \in textureCache <=> loads[url] = 1)
    /\ [](\A url \in textureCache :
             LET got == getOrCreateSprite(spriteState, url, {})
             IN  /\ got.sprite # NoSprite
                 /\ got.ss.loads = loads
                 /\ got.ss.textureCache = textureCache
                 /\ got.ss.sprites[got.sprite].texture = url)
    /\ [][textureCache \subseteq textureCache']_vars

\* two sprites bound to the texture of one url, which was loaded once
C23_Witness ==
    /\ Len(activeSpriteMap) = 2
    /\ \A i \in 1..2 : sprites[activeSpriteMap[i][2]].texture = "a"
    /\ loads["a"] = 1

-----------------------------------------------------------------------------
\* camera states handed to the clamp: offsets below, inside and beyond the pan
\* range, scales below, inside and beyond the zoom range, and the two cameras
\* of the state
ClampOffsets == {-1, 0, 12345, 10000000}
ClampScales == {1, 800, 5000, SC, 10200, 100000}
ClampInputs ==
    [xOffset : ClampOffsets, yOffset : ClampOffsets, scale : ClampScales]
    \cup {targetViewport,
          [xOffset |-> viewport.xOffset, yOffset |-> viewport.yOffset, scale |-> viewport.scale]}

\* constrainViewport applied to camera x under the viewport size and grid of the state
clamp(x) ==
    constrainViewport(x.xOffset, x.yOffset, x.scale, viewport.width, viewport.height, rows, cols)

\* C24: for every camera state x and every grid and viewport configuration
\* clamp(clamp(x)) = clamp(x), and clamp(x) = x whenever x is within the legal
\* bounds.
C24_ClampIdempotent ==
    \A x \in ClampInputs :
       /\ clamp(clamp(x)) = clamp(x)
       /\ LegalCamera(x, viewport.width, viewport.height, rows, cols) => clamp(x) = x

\* an expanded grid under the wide window with a legal target away from the
\* origin, which the clamp returns as it is, and an actual camera (still beyond
\* the zoom range) which the clamp moves
C24_Witness ==
    /\ rows = 2 * INITIAL_ROWS
    /\ TargetLegal /\ targetViewport.xOffset > 0
    /\ clamp(targetViewport) = targetViewport
    /\ ~ActualLegal
    /\ clamp(clamp(viewport)) = clamp(viewport)
    /\ clamp(viewport).scale # viewport.scale

-----------------------------------------------------------------------------
\* the target handleWheel stores for wheel delta deltaY at pivot pixel pos
ZoomTarget(deltaY, pos) ==
    LET req == wheelRequest(targetViewport, deltaY, pos[1], pos[2])
    IN  constrainViewport(req.xOffset, req.yOffset, req.scale,
                          viewport.width, viewport.height, rows, cols)

\* (pivot + offset') / scale' = (pivot + offset) / scale, cross-multiplied; the
\* stored offset is a grid point, at most half an offset step from the exact one
PivotFixed(pivot, offset, scale, newOffset, newScale) ==
    2 * Abs((pivot * PX + newOffset) * scale - (pivot * PX + offset) * newScale) <= scale

\* C25: after a wheel event the world point under the pivot pixel is the same in
\* the new target as in the old one on both axes, the new scale being
\* old_scale * (1 - k * deltaY) clamped to [minScale, maxScale]; stated for the
\* wheel events that meet a legal target.
C25_ZoomKeepsPivot ==
    \A deltaY \in WheelDeltas, pos \in PointerPositions :
       LET new == ZoomTarget(deltaY, pos)
       IN  TargetLegal =>
           /\ NearestLegalScale(new.scale, ZoomRequestedScale(deltaY), viewport.height, rows)
           /\ PivotFixed(pos[1], targetViewport.xOffset, targetViewport.scale,
                         new.xOffset, new.scale)
           /\ PivotFixed(pos[2], targetViewport.yOffset, targetViewport.scale,
                         new.yOffset, new.scale)

-----------------------------------------------------------------------------
\* C26: the pan and wheel handlers write the target camera and never the actual
\* camera, the viewport size, the grid or the render-time sprite structures; a
\* tick changes only xOffset, yOffset and scale of the actual camera and never
\* the target, the viewport size, the grid dimensions or the tile store.
C26_HandlersWriteTargetTickWritesActual ==
    /\ [][(handlePanStart \/ handlePanMove \/ handlePanEnd \/ handleWheel) =>
             UNCHANGED <<viewport, gridVars, spriteVars, frames>>]_vars
    /\ [][Tick => /\ UNCHANGED <<targetViewport, gridVars>>
                  /\ viewport'.width = viewport.width
                  /\ viewport'.height = viewport.height]_vars
    /\ [][viewport' # viewport =>
             (Tick \/ handleResize) /\ UNCHANGED <<targetViewport, gridVars>>]_vars
    /\ [][targetViewport' # targetViewport =>
             (handlePanMove \/ handleWheel) /\ UNCHANGED <<viewport, gridVars>>]_vars

\* an input has moved the target, and ticks have carried the actual camera part
\* of the way
C26_Witness ==
    /\ events > 0
    /\ targetViewport.scale # SC /\ targetViewport.xOffset > 0
    /\ viewport.scale # SC /\ viewport.scale # targetViewport.scale
    /\ viewport.xOffset # targetViewport.xOffset

-----------------------------------------------------------------------------
(* The mock reservation API under callers that pass any user and any         *)
(* reservation id, in any order, while time passes.                          *)

NextMockAPI ==
    \/ AdvanceTime
    \/ callCreateReservation
    \/ callCancelReservation
    \/ callValidateReservation
    \/ callGetUserReservation
    \/ callExtendReservation

\* the page as loaded: a resting grid, no selection, no reservation
InitPage == InitWith(ClickWindowSizes, {})

SpecMockAPI == InitPage /\ [][NextMockAPI]_vars

\* the grid page: selection, reservation buttons, returning API calls, the countdown
NextReservation ==
    \/ AdvanceTime
    \/ selectRange
    \/ clearSelection
    \/ createReservation
    \/ cancelReservation
    \/ extendReservation
    \/ apiCallReturns
    \/ intervalFires

SpecReservation == InitPage /\ [][NextReservation]_vars

\* timers fire: a pending API call returns, a live interval fires, and time passes
FairReservation ==
    /\ SpecReservation
    /\ WF_vars(apiCallReturns)
    /\ WF_vars(intervalFires)
    /\ WF_vars(AdvanceTime)

\* the reservations of a user that are active: status 'active' and not past expiresAt
ActiveOf(userId) ==
    {id \in 1..Len(reservations) :
        /\ reservations[id].userId = userId
        /\ reservations[id].status = "active"
        /\ now < reservations[id].expiresAt}

\* C27: a user has at most one active reservation: createReservation for a user
\* who has one returns success:false and creates nothing, and under any
\* interleaving of the calls every reservation referenced by the
\* user-to-reservation index has status 'active' and belongs to that user.
C27_OneActiveReservationPerUser ==
    /\ [](\A userId \in Users : Cardinality(ActiveOf(userId)) <= 1)
    /\ [](\A userId \in DOMAIN userReservations :
             /\ known(apiState, userReservations[userId])
             /\ reservations[userReservations[userId]].status = "active"
             /\ reservations[userReservations[userId]].userId = userId)
    /\ [][\A userId \in Users :
             (ActiveOf(userId) # {} /\ Len(reservations') > Len(reservations))
                => reservations'[Len(reservations')].userId # userId]_vars
    /\ [][\A userId \in Users :
             (userId \in DOMAIN userReservations /\ callCreateReservation
                /\ lastResponse'.success)
                => reservations'[Len(reservations')].userId # userId]_vars

\* the step in which cancelReservation completes for the reservation the store holds
cancelCompletes ==
    /\ pending # <<>>
    /\ Head(pending).op = "cancel"
    /\ Head(pending).id = activeReservation
    /\ pending' = Tail(pending)

\* C28: after cancelReservation completes for an active reservation the store has
\* no active reservation (activeReservation = null, reservationTimeLeft = null,
\* isReservationExpiring = false), the countdown timer is stopped, and the tile
\* selection is cleared.
C28_CancelClearsStoreAndSelection ==
    [][cancelCompletes =>
          /\ activeReservation' = NoReservation
          /\ reservationTimeLeft' = NoTime
          /\ isReservationExpiring' = FALSE
          /\ reservationTimer' = NoTimer
          /\ intervals' = {}
          /\ selectedTiles' = {}]_vars

\* a countdown tick at or after expiresAt of the reservation the store holds
expiryTick ==
    /\ activeReservation # NoReservation
    /\ now >= reservations[activeReservation].expiresAt
    /\ intervalFires

\* C29: while a reservation is active the countdown fires repeatedly (the interval
\* of the store is live); once the current time has reached expiresAt the next
\* countdown tick clears activeReservation, reservationTimeLeft,
\* isReservationExpiring and the selection and stops the timer; hence every active
\* reservation is eventually removed from the store (extensions are bounded by
\* MaxTime, so none is extended indefinitely).
C29_CountdownExpiresReservation ==
    /\ [](activeReservation # NoReservation =>
            reservationTimer # NoTimer /\ reservationTimer \in intervals)
    /\ [][expiryTick =>
            /\ activeReservation' = NoReservation
            /\ reservationTimeLeft' = NoTime
            /\ isReservationExpiring' = FALSE
            /\ selectedTiles' = {}
            /\ reservationTimer' = NoTimer
            /\ intervals' = {}]_vars
    /\ \A id \in 1..MaxReservations :
          (activeReservation = id) ~> (activeReservation # id)

\* a step that updates the store and leaves it with an active reservation:
\* createReservation or extendReservation completes, or the countdown ticks
storeUpdated ==
    /\ activeReservation' # NoReservation
    /\ \/ /\ pending # <<>>
          /\ Head(pending).op \in {"create", "extend"}
          /\ pending' = Tail(pending)
       \/ /\ activeReservation # NoReservation
          /\ intervalFires

\* the time left until expiresAt of the reservation the store holds
timeLeftNow == reservations[activeReservation].expiresAt - now

\* C30: with an active reservation isReservationExpiring is true exactly when the
\* time left until expiresAt is below the 15-minute warning time, including
\* immediately after createReservation and immediately after extendReservation;
\* with no active reservation it is false.  The first part is stated for the
\* states in which the store has just been updated (between updates the clock
\* moves on and the store is as old as its last countdown tick).
C30_ExpiringIffBelowWarningTime ==
    /\ [][storeUpdated => (isReservationExpiring' <=> (timeLeftNow' < WARNING_TIME))]_vars
    /\ [](activeReservation = NoReservation => ~isReservationExpiring)

\* C31: while a reservation is active the selected tiles are locked: from the
\* successful createReservation until the reservation is cancelled or expires, the
\* selection of the store (and with it the square count and total price shown
\* with the reservation) equals the squareIds of the reservation.
C31_SelectionLockedWhileReserved ==
    activeReservation # NoReservation =>
        SeqOfSet(selectedTiles) = reservations[activeReservation].squareIds

\* the chunks holding a tile of the visible rectangle
overlappingChunks ==
    {<<ChunkOf(r), ChunkOf(c)>> : r \in actualBounds.startRow..(actualBounds.endRow - 1),
                                  c \in actualBounds.startCol..(actualBounds.endCol - 1)}

\* the tiles of the grid in chunk ch, and the occupied ones among them
gridTilesOf(ch) ==
    {<<r, c>> \in (0..(rows - 1)) \X (0..(cols - 1)) : ChunkOf(r) = ch[1] /\ ChunkOf(c) = ch[2]}

occupiedTilesOf(ch) == {key \in gridTilesOf(ch) \cap DOMAIN tileData : tileData[key].sold}

C33_SpritesBoundedByPeakActive ==
    /\ [](Len(sprites) = Len(activeSpriteMap) + Len(spritePool))
    /\ [](Len(sprites) <= peakActive)
    /\ [][Len(sprites') > Len(sprites) => spritePool' = <<>>]_vars
    /\ [](\A url \in ImageUrls :
             LET got == getOrCreateSprite(spriteState, url, {url})
             IN  IF spritePool = <<>>
                 THEN got.sprite = Len(sprites) + 1 /\ Len(got.ss.sprites) = Len(sprites) + 1
                 ELSE /\ got.sprite = Last(spritePool)
                      /\ got.ss.spritePool = Front(spritePool)
                      /\ Len(got.ss.sprites) = Len(sprites))

\* a sprite has been returned to the pool and handed out again: every sprite
\* allocated so far is active, and fewer were allocated than tiles were served
C33_Witness ==
    /\ peakActive >= 1
    /\ Len(sprites) = peakActive
    /\ spritePool = <<>>
    /\ \E i \in 1..Len(activeSpriteMap) :
          getTile(tileData, activeSpriteMap[i][1]).imageUrl # NoImage
    /\ \E i \in 1..Len(activeSpriteMap) : ~sprites[activeSpriteMap[i][2]].visible

\* C35: every sprite handed out by getOrCreateSprite is visible and bound to the
\* texture of the requested image, including a sprite recycled from the pool after
\* returnSpriteToPool marked it invisible and unbound its texture.
C35_HandedOutSpriteVisibleAndBound ==
    \A url \in ImageUrls :
        LET got == getOrCreateSprite(spriteState, url, {url})
        IN  got.sprite # NoSprite =>
                /\ got.ss.sprites[got.sprite].texture = url
                /\ got.ss.sprites[got.sprite].visible

\* window.innerHeight values the zoom interval is computed for
ViewportHeights == 0..1200

\* C34: in every reachable state rows = cols = 10 * 2^k, where k is the number of
\* expand calls made so far (the dimensions change only by doubling); hence
\* rows >= MIN_VISIBLE_TILES and the zoom interval is never empty:
\* minScale <= maxScale for every viewport height.
C34_GridIsTenTimesPowerOfTwo ==
    /\ [](rows = cols /\ \E k \in 0..(MaxExpands + 1) : rows = 10 * 2 ^ k)
    /\ [][rows' # rows \/ cols' # cols => rows' = 2 * rows /\ cols' = 2 * cols]_vars
    /\ [](rows >= MIN_VISIBLE_TILES)
    /\ [](\A h \in ViewportHeights :
             getZoomConstraints(h, rows).minScale <= getZoomConstraints(h, rows).maxScale)

\* a grid after one expansion, in a window whose zoom interval was a single scale
\* before the expansion
C34_Witness ==
    /\ rows = 20 /\ cols = 20
    /\ getZoomConstraints(viewport.height, rows).minScale
         < getZoomConstraints(viewport.height, rows).maxScale
    /\ getZoomConstraints(viewport.height, INITIAL_ROWS).minScale
         = getZoomConstraints(viewport.height, INITIAL_ROWS).maxScale

\* C36: once cancelReservation or expiry has cleared the active reservation of the
\* store, activeReservation stays null until a createReservation succeeds: the
\* response of an extendReservation issued before the clear and arriving after it
\* does not set activeReservation again, under any interleaving of the pending
\* API responses and countdown ticks.
C36_ClearedUntilNextCreate ==
    [][activeReservation = NoReservation /\ activeReservation' # NoReservation =>
          /\ pending # <<>>
          /\ Head(pending).op = "create"
          /\ pending' = Tail(pending)]_vars

\* C37: at most one countdown interval exists at any time, even when
\* createReservation calls overlap or repeat, and a countdown interval is running
\* only while activeReservation is non-null.
C37_OneIntervalOnlyWhileActive ==
    /\ Cardinality(intervals) <= 1
    /\ intervals # {} => activeReservation # NoReservation
    /\ intervals = IF reservationTimer = NoTimer THEN {} ELSE {reservationTimer}

\* the second of two overlapping createReservation calls has returned: the store
\* holds reservation 2 and one interval is live
C37_Witness ==
    /\ activeReservation = 2
    /\ Len(reservations) = 2
    /\ reservations[1].status = "active"
    /\ Cardinality(intervals) = 1

\* C38: xOffset and yOffset of both target and actual are never negative, so the
\* culling start indices startRow and startCol are always >= 0 and the renderer
\* never looks up a tile with a negative coordinate, although it clamps only the
\* upper ends of the visible rectangle.
C38_OffsetsNeverNegative ==
    /\ viewport.xOffset >= 0 /\ viewport.yOffset >= 0
    /\ targetViewport.xOffset >= 0 /\ targetViewport.yOffset >= 0
    /\ actualBounds.startRow >= 0 /\ actualBounds.startCol >= 0
    /\ \A key \in visitedTiles(viewport, rows, cols) : key[1] >= 0 /\ key[2] >= 0

\* a drag to the right and down from the origin asked for negative offsets, and
\* the target stayed at the origin
C38_Witness ==
    /\ isPanning /\ hasMoved
    /\ lastPointerPos = <<12, 4>>
    /\ targetViewport.xOffset = 0 /\ targetViewport.yOffset = 0
    /\ visitedTiles(viewport, rows, cols) # {}

\* viewport heights of at least 500 pixels, and the rows of grids after up to six
\* expansions
TallHeights == 500..1200
ExpandedRows == {INITIAL_ROWS * 2 ^ k : k \in 0..6}

\* C39: in every execution in which the viewport height is always at least 500
\* pixels, actual.scale never drops below T_minimal = 0.1 (minScale >=
\* height / (MAX_VISIBLE_TILES * TILE_SIZE) >= 0.1 for every grid, and the initial
\* scale is 1), so the Minimal LOD branch is never selected.
C39_NeverMinimalInTallWindow ==
    /\ [](\A h \in TallHeights, rs \in ExpandedRows :
             /\ getZoomConstraints(h, rs).minScale
                  >= RoundDiv(h * SC, MAX_VISIBLE_TILES * TILE_SIZE)
             /\ getZoomConstraints(h, rs).minScale >= LOD_MINIMAL_SCALE)
    /\ [](viewport.height >= 500)
          => [](/\ viewport.scale >= LOD_MINIMAL_SCALE
                /\ targetViewport.scale >= LOD_MINIMAL_SCALE
                /\ rendererLOD(viewport.scale) # "Minimal")

\* in a window of height 500 the camera has zoomed out to the smallest legal scale
\* of the expanded grid and has come to rest there
C39_Witness ==
    /\ viewport.height = 500
    /\ rows = 2 * INITIAL_ROWS
    /\ viewport.scale < SC
    /\ viewport.scale = getZoomConstraints(viewport.height, rows).minScale
    /\ ActualAtTarget

====
